---- MODULE Spec2Model ----
(***************************************************************************)
(* A model of cellrank's MarkovChain estimator                             *)
(* (src/cellrank/tools/_estimators/_markov_chain.py).                      *)
(*                                                                         *)
(* Numbers.  Probabilities are exact rationals <<n, d>> in lowest terms    *)
(* with d > 0; the IEEE special values the code can produce are kept as    *)
(* <<0, 0>> (NaN) and <<1, 0>>, <<-1, 0>> (+inf, -inf).  A transition      *)
(* matrix is a record [den, num]: entry (i, j) is num[i][j] / den.  The    *)
(* model does not round: floating-point error is outside it.               *)
(*                                                                         *)
(* Indices.  States, columns and eigenvectors are numbered from 0 as in    *)
(* the source; index lists (np.where results) are sequences of them.       *)
(*                                                                         *)
(* Optional values.  Python's None is <<>> and a present value x is <<x>>. *)
(***************************************************************************)
EXTENDS Integers, Sequences, FiniteSets, TLC

None == <<>>
Some(x) == <<x>>
Get(o) == o[1]

(***************************************************************************)
(* Exact rational arithmetic with NaN and infinities.                      *)
(***************************************************************************)
Abs(n) == IF n < 0 THEN -n ELSE n

Sign(n) == IF n < 0 THEN -1 ELSE IF n = 0 THEN 0 ELSE 1

RECURSIVE GCD(_, _)
GCD(a, b) == IF b = 0 THEN a ELSE GCD(b, a % b)

NaN == <<0, 0>>

Zero == <<0, 1>>

One == <<1, 1>>

IsNaN(x) == x = NaN

\* n / d as a float division does it: 0/0 is NaN, x/0 is a signed infinity.
Frac(n, d) ==
    IF d = 0 THEN <<Sign(n), 0>>
    ELSE LET g == GCD(Abs(n), Abs(d))
         IN  <<(Sign(d) * n) \div g, Abs(d) \div g>>

FracAdd(x, y) ==
    IF IsNaN(x) \/ IsNaN(y) THEN NaN
    ELSE IF x[2] = 0 /\ y[2] = 0 THEN (IF x[1] = y[1] THEN x ELSE NaN)
    ELSE IF x[2] = 0 THEN x
    ELSE IF y[2] = 0 THEN y
    ELSE Frac(x[1] * y[2] + y[1] * x[2], x[2] * y[2])

FracDiv(x, y) ==
    IF IsNaN(x) \/ IsNaN(y) THEN NaN
    ELSE Frac(x[1] * y[2], x[2] * y[1])

\* x <= y as floats compare: false when either is NaN.
FracLe(x, y) ==
    /\ ~IsNaN(x) /\ ~IsNaN(y)
    /\ IF x[2] = 0 \/ y[2] = 0
       THEN (IF x[2] = 0 THEN x[1] ELSE 0) <= (IF y[2] = 0 THEN y[1] ELSE 0)
            /\ ~(x[2] = 0 /\ y[2] # 0 /\ x[1] > 0) /\ ~(y[2] = 0 /\ x[2] # 0 /\ y[1] < 0)
       ELSE x[1] * y[2] <= y[1] * x[2]

\* np.max / np.min of a non-empty set of floats: NaN if any is NaN.
FracMax(S) == IF NaN \in S THEN NaN ELSE CHOOSE x \in S : \A y \in S : FracLe(y, x)

FracMin(S) == IF NaN \in S THEN NaN ELSE CHOOSE x \in S : \A y \in S : FracLe(x, y)

FracSub(x, y) == FracAdd(x, Frac(-y[1], y[2]))

\* Sum of f[i] for the indices of the sequence ixs.
RECURSIVE FracSum(_, _)
FracSum(f, ixs) ==
    IF ixs = <<>> THEN Zero ELSE FracAdd(f[Head(ixs)], FracSum(f, Tail(ixs)))

(***************************************************************************)
(* Index lists.                                                            *)
(***************************************************************************)
SetMin(S) == CHOOSE x \in S : \A y \in S : x <= y

\* np.where(mask)[0]: the indices of a set in ascending order.
RECURSIVE Where(_)
Where(S) == IF S = {} THEN <<>> ELSE <<SetMin(S)>> \o Where(S \ {SetMin(S)})

Range(f) == {f[x] : x \in DOMAIN f}

\* The sequence s without its k-th element.
Drop(s, k) == SubSeq(s, 1, k - 1) \o SubSeq(s, k + 1, Len(s))

\* A 0-based vector from a tuple.
Vec(t) == [j \in 0 .. Len(t) - 1 |-> t[j + 1]]

(***************************************************************************)
(* Dense linear algebra on integer matrices (entries in units of 1/den).   *)
(***************************************************************************)
\* Determinant of the square matrix a restricted to rows rs and columns cs
\* (index sequences of equal length), by expansion along the first row.
RECURSIVE Det(_, _, _)
RECURSIVE DetExpand(_, _, _, _)
DetExpand(a, rs, cs, k) ==
    IF k > Len(cs) THEN 0
    ELSE (IF k % 2 = 1 THEN 1 ELSE -1) * a[Head(rs)][cs[k]] * Det(a, Tail(rs), Drop(cs, k))
         + DetExpand(a, rs, cs, k + 1)

Det(a, rs, cs) == IF rs = <<>> THEN 1 ELSE DetExpand(a, rs, cs, 1)

\* a - b, entry by entry, for matrices over rows rs and columns cs.
MatSub(a, b) == [i \in DOMAIN a |-> [j \in DOMAIN a[i] |-> a[i][j] - b[i][j]]]

\* The matrix a with its column c replaced by column k of b.
ReplaceCol(a, c, b, k) ==
    [i \in DOMAIN a |-> [j \in DOMAIN a[i] |-> IF j = c THEN b[i][k] ELSE a[i][j]]]

IndexSeq(n) == [k \in 1 .. n |-> k - 1]

\* scipy.linalg.solve raises LinAlgError on an exactly singular matrix.
Singular(a, n) == Det(a, IndexSeq(n), IndexSeq(n)) = 0

\* scipy.linalg.solve(a, b) for a nonsingular n x n matrix a and an n x m
\* matrix b, by Cramer's rule: the exact solution x of a x = b.
solve(a, b, n, m) ==
    [i \in 0 .. n - 1 |->
        [j \in 0 .. m - 1 |->
            Frac(Det(ReplaceCol(a, i, b, j), IndexSeq(n), IndexSeq(n)),
                 Det(a, IndexSeq(n), IndexSeq(n)))]]

(***************************************************************************)
(* Transition matrices and class labelings.                                *)
(***************************************************************************)
\* self._n_states of a transition matrix t.
n_states(t) == Cardinality(DOMAIN t.num)

StatesOf(t) == 0 .. n_states(t) - 1

\* A categorical series (pandas): cats are its categories in order, lab
\* gives each state its category or "NaN".
NoLabel == "NaN"

(***************************************************************************)
(* compute_lin_probs, the computation (lines 665-714).                     *)
(***************************************************************************)
\* lines 666-668: the states carrying any category of the series.
Mask(approx_rcs_) ==
    {i \in DOMAIN approx_rcs_.lab :
        \E k \in DOMAIN approx_rcs_.cats : approx_rcs_.lab[i] = approx_rcs_.cats[k]}

\* line 669
rec_indices(approx_rcs_) == Where(Mask(approx_rcs_))

trans_indices(approx_rcs_) == Where(DOMAIN approx_rcs_.lab \ Mask(approx_rcs_))

\* lines 672-674: t[rows, :][:, cols], in units of 1/t.den.
Restrict(t, rows, cols) ==
    [i \in 0 .. Len(rows) - 1 |-> [j \in 0 .. Len(cols) - 1 |-> t.num[rows[i + 1]][cols[j + 1]]]]

Eye(t, n) == [i \in 0 .. n - 1 |-> [j \in 0 .. n - 1 |-> IF i = j THEN t.den ELSE 0]]

\* line 684 raises: I - Q is singular.
SolveFails(t, approx_rcs_) ==
    LET trans == trans_indices(approx_rcs_)
    IN  Singular(MatSub(Eye(t, Len(trans)), Restrict(t, trans, trans)), Len(trans))

\* A variant without the solve: one step of the chain into the recurrent
\* states, instead of eventual absorption.
AbsStates_OneStep(t, approx_rcs_) ==
    LET s == Restrict(t, trans_indices(approx_rcs_), rec_indices(approx_rcs_))
    IN  [i \in 0 .. Len(trans_indices(approx_rcs_)) - 1 |->
            [j \in 0 .. Len(rec_indices(approx_rcs_)) - 1 |-> Frac(s[i][j], t.den)]]

\* line 684: abs_states = solve(eye - q, s)
AbsStates(t, approx_rcs_) ==
    LET trans == trans_indices(approx_rcs_)
        rec == rec_indices(approx_rcs_)
        q == Restrict(t, trans, trans)
        s == Restrict(t, trans, rec)
        eye == Eye(t, Len(trans))
    IN  solve(MatSub(eye, q), s, Len(trans), Len(rec))

\* lines 687-691: for a category, the positions among the recurrent states
\* of the states that carry it.
rec_classes_red(approx_rcs_, key) ==
    LET rec == rec_indices(approx_rcs_)
    IN  Where({j \in 0 .. Len(rec) - 1 : approx_rcs_.lab[rec[j + 1]] = key})

\* lines 692-698: sum the columns of abs_states that belong to one class.
AggregateClasses(abs_states, approx_rcs_) ==
    [i \in DOMAIN abs_states |->
        [c \in 0 .. Len(approx_rcs_.cats) - 1 |->
            FracSum(abs_states[i], rec_classes_red(approx_rcs_, approx_rcs_.cats[c + 1]))]]

\* A variant of lines 700-702 that leaves the column of a class without
\* members undivided.
NormByFrequ_SkipEmpty(abs_classes_, approx_rcs_) ==
    [i \in DOMAIN abs_classes_ |->
        [c \in DOMAIN abs_classes_[i] |->
            IF rec_classes_red(approx_rcs_, approx_rcs_.cats[c + 1]) = <<>>
            THEN abs_classes_[i][c]
            ELSE FracDiv(abs_classes_[i][c],
                         <<Len(rec_classes_red(approx_rcs_, approx_rcs_.cats[c + 1])), 1>>)]]

\* lines 700-702: _abs_classes /= [len(value) for value in rec_classes_red.values()]
NormByFrequ(abs_classes_, approx_rcs_) ==
    [i \in DOMAIN abs_classes_ |->
        [c \in DOMAIN abs_classes_[i] |->
            FracDiv(abs_classes_[i][c],
                    <<Len(rec_classes_red(approx_rcs_, approx_rcs_.cats[c + 1])), 1>>)]]

\* _normalize of cellrank.tools._utils: every row divided by its sum.
Normalize(x) ==
    [i \in DOMAIN x |->
        LET total == FracSum(x[i], Where(DOMAIN x[i]))
        IN  [c \in DOMAIN x[i] |-> FracDiv(x[i][c], total)]]

\* A variant without line 703: the rows are left as the division by the
\* class sizes made them.
AbsClassesTransient_Unnormalized(t, approx_rcs_, norm_by_frequ) ==
    LET agg == AggregateClasses(AbsStates(t, approx_rcs_), approx_rcs_)
    IN  IF norm_by_frequ THEN NormByFrequ(agg, approx_rcs_) ELSE agg

\* lines 692-703: the class-level absorption probabilities of the
\* transient states.
AbsClassesTransient(t, approx_rcs_, norm_by_frequ) ==
    LET agg == AggregateClasses(AbsStates(t, approx_rcs_), approx_rcs_)
    IN  Normalize(IF norm_by_frequ THEN NormByFrequ(agg, approx_rcs_) ELSE agg)

\* The position of state i in the index list ixs.
PosIn(ixs, i) == CHOOSE k \in 0 .. Len(ixs) - 1 : ixs[k + 1] = i

\* A variant without line 712: the rows of the labeled states stay zero.
SetRecurrentRows_Zeros(abs_classes_, approx_rcs_) ==
    LET trans == trans_indices(approx_rcs_)
    IN  [i \in DOMAIN approx_rcs_.lab |->
            [c \in 0 .. Len(approx_rcs_.cats) - 1 |->
                IF i \in Range(trans) THEN abs_classes_[PosIn(trans, i)][c] ELSE Zero]]

\* lines 706-712: the N x L matrix; transient rows are copied in, and the
\* state of a class gets 1 in the class's column over the zeros.
SetRecurrentRows(abs_classes_, approx_rcs_) ==
    LET trans == trans_indices(approx_rcs_)
    IN  [i \in DOMAIN approx_rcs_.lab |->
            [c \in 0 .. Len(approx_rcs_.cats) - 1 |->
                IF approx_rcs_.lab[i] = approx_rcs_.cats[c + 1] THEN One
                ELSE IF i \in Range(trans) THEN abs_classes_[PosIn(trans, i)][c]
                ELSE Zero]]

\* scipy.stats.entropy of one distribution pk: pk is divided by its sum and
\* S = sum(-p ln p).  The value is kept as the terms of that sum: the set of
\* <<p, number of entries equal to p>> for p other than 0 and 1 (whose terms
\* vanish), so the empty set is the entropy 0 and a NaN entry makes it NaN.
EntropyNaN == {<<NaN, 1>>}

EntropyZero == {}

entropy(pk) ==
    LET total == FracSum(pk, Where(DOMAIN pk))
        p == [c \in DOMAIN pk |-> FracDiv(pk[c], total)]
    IN  IF \E c \in DOMAIN p : IsNaN(p[c]) THEN EntropyNaN
        ELSE {<<v, Cardinality({c \in DOMAIN p : p[c] = v})>> :
                 v \in {p[c] : c \in DOMAIN p} \ {Zero, One}}

\* A variant without the transposition: one entropy per class, taken over
\* the states.
DiffPotential_PerClass(abs_classes) ==
    LET states == DOMAIN abs_classes
        classes == UNION {DOMAIN abs_classes[i] : i \in states}
    IN  [c \in classes |-> entropy([i \in states |-> abs_classes[i][c]])]

\* line 714: entropy(abs_classes.T), one value per state.
DiffPotential(abs_classes) == [i \in DOMAIN abs_classes |-> entropy(abs_classes[i])]

(***************************************************************************)
(* partition of cellrank.tools._utils: the communication classes.          *)
(***************************************************************************)
Succ(t, S) == S \cup {j \in StatesOf(t) : \E i \in S : t.num[i][j] > 0}

RECURSIVE ReachableFrom(_, _)
ReachableFrom(t, S) == IF Succ(t, S) = S THEN S ELSE ReachableFrom(t, Succ(t, S))

\* The strongly connected component of state i.
Component(t, i) ==
    {j \in ReachableFrom(t, {i}) : i \in ReachableFrom(t, {j})}

Components(t) == {Component(t, i) : i \in StatesOf(t)}

\* A component is recurrent iff no edge leaves it.
IsClosed(t, C) == \A i \in C : \A j \in StatesOf(t) : t.num[i][j] > 0 => j \in C

partition(t) ==
    [rec |-> {C \in Components(t) : IsClosed(t, C)},
     trans |-> {C \in Components(t) : ~IsClosed(t, C)}]

\* _make_cat: each state gets the number of its class in the list (classes
\* taken in the order of their smallest state), -1 where it is in none.
make_cat(classes, n) ==
    [i \in 0 .. n - 1 |->
        IF \E C \in classes : i \in C
        THEN Cardinality({C \in classes : SetMin(C) < SetMin(CHOOSE D \in classes : i \in D)})
        ELSE -1]

(***************************************************************************)
(* The estimator session (MarkovChain.__init__, lines 82-89) and the       *)
(* dataset it writes to.  The dataset of the model carries the cluster     *)
(* annotation "clusters", the embedding "umap", the pseudotime             *)
(* "latent_time" and a raw attribute; it has no cell-cycle scores, and no  *)
(* PAGA graph unless a specification says otherwise.                       *)
(***************************************************************************)
ObsKeys == {"clusters", "latent_time"}

ObsmBases == {"umap"}

FreshAdata ==
    [obs_rc |-> None, uns_rc_colors |-> None, obs_rc_probs |-> None,
     obs_rec_classes |-> None, obs_trans_classes |-> None,
     obsm_lin |-> None, obs_lin_dp |-> None,
     uns_lin_names |-> None, uns_lin_colors |-> None, var_corr |-> {},
     raw_var_corr |-> {}, uns_paga |-> FALSE]

FreshSession ==
    [is_irreducible |-> None, rec_classes |-> None, trans_classes |-> None,
     eig |-> None, approx_rcs |-> None, approx_rcs_colors |-> None,
     approx_rcs_probs |-> None, lin_probs |-> None, dp |-> None,
     adata |-> FreshAdata]

\* _create_categorical_colors(n): the first n colors of the palette.  A
\* color is the set of palette entries mixed into it.
create_categorical_colors(n) == [k \in 1 .. n |-> {k}]

\* A variant that takes a chain with one recurrent class for irreducible,
\* whatever its transient classes.
compute_partition_OneRecurrent(m, t) ==
    LET p == partition(t)
        irred == Cardinality(p.rec) = 1
        tc == make_cat(p.trans, n_states(t))
        rc == make_cat(p.rec, n_states(t))
    IN  IF ~irred
        THEN [m EXCEPT !.is_irreducible = Some(irred),
                       !.trans_classes = Some(tc),
                       !.rec_classes = Some(rc),
                       !.adata.obs_rec_classes = Some(rc),
                       !.adata.obs_trans_classes = Some(tc)]
        ELSE [m EXCEPT !.is_irreducible = Some(irred)]

\* A variant that numbers the recurrent classes twice and stores them as
\* the transient classes too.
compute_partition_RecurrentTwice(m, t) ==
    LET p == partition(t)
        irred == Cardinality(p.rec) = 1 /\ Cardinality(p.trans) = 0
        rc == make_cat(p.rec, n_states(t))
    IN  IF ~irred
        THEN [m EXCEPT !.is_irreducible = Some(irred),
                       !.trans_classes = Some(rc),
                       !.rec_classes = Some(rc),
                       !.adata.obs_rec_classes = Some(rc),
                       !.adata.obs_trans_classes = Some(rc)]
        ELSE [m EXCEPT !.is_irreducible = Some(irred)]

\* A variant that stores the classes of an irreducible chain too.
compute_partition_AlwaysStores(m, t) ==
    LET p == partition(t)
        irred == Cardinality(p.rec) = 1 /\ Cardinality(p.trans) = 0
        tc == make_cat(p.trans, n_states(t))
        rc == make_cat(p.rec, n_states(t))
    IN  [m EXCEPT !.is_irreducible = Some(irred),
                  !.trans_classes = Some(tc),
                  !.rec_classes = Some(rc),
                  !.adata.obs_rec_classes = Some(rc),
                  !.adata.obs_trans_classes = Some(tc)]

\* compute_partition, lines 211-236, on session record m.
compute_partition(m, t) ==
    LET p == partition(t)
        irred == Cardinality(p.rec) = 1 /\ Cardinality(p.trans) = 0
        tc == make_cat(p.trans, n_states(t))
        rc == make_cat(p.rec, n_states(t))
    IN  IF ~irred
        THEN [m EXCEPT !.is_irreducible = Some(irred),
                       !.trans_classes = Some(tc),
                       !.rec_classes = Some(rc),
                       !.adata.obs_rec_classes = Some(rc),
                       !.adata.obs_trans_classes = Some(tc)]
        ELSE [m EXCEPT !.is_irreducible = Some(irred)]

\* _check_and_create_colors, lines 976-992.
check_and_create_colors(m) ==
    LET n_cats == Len(Get(m.approx_rcs).cats)
        created == [m EXCEPT !.approx_rcs_colors = Some(create_categorical_colors(n_cats)),
                             !.adata.uns_rc_colors = Some(create_categorical_colors(n_cats))]
    IN  IF m.approx_rcs_colors = None
        THEN IF m.adata.uns_rc_colors # None /\ n_cats = Len(Get(m.adata.uns_rc_colors))
             THEN [m EXCEPT !.approx_rcs_colors = m.adata.uns_rc_colors]
             ELSE created
        ELSE IF Len(Get(m.approx_rcs_colors)) # n_cats THEN created ELSE m

(***************************************************************************)
(* _process_series of cellrank.tools._utils: restrict a series to `keys`.  *)
(* A key is the set of category names it lists ("A, B" is {"A", "B"}): a   *)
(* key of one name keeps that category, a key of several combines them     *)
(* into one, and every category no key names is removed.                   *)
(***************************************************************************)
CatPos(cats, c) == CHOOSE k \in DOMAIN cats : cats[k] = c

\* The name of the category a key stands for.
JoinNames(g) ==
    IF Cardinality(g) = 1 THEN CHOOSE c \in g : TRUE
    ELSE IF g = {"A", "B"} THEN "A or B"
    ELSE IF g = {"0", "1"} THEN "0 or 1"
    ELSE "combined"

MinPos(cats, g) == SetMin({CatPos(cats, c) : c \in g})

RECURSIVE GroupSeq(_, _)
GroupSeq(cats, K) ==
    IF K = {} THEN <<>>
    ELSE LET g == CHOOSE g \in K : \A h \in K : MinPos(cats, g) <= MinPos(cats, h)
         IN  <<g>> \o GroupSeq(cats, K \ {g})

process_series(series, keys, colors) ==
    IF keys = None THEN [exc |-> "", series |-> series, colors |-> colors]
    ELSE LET K == Get(keys)
             groups == GroupSeq(series.cats, {g \in K : Cardinality(g) = 1})
                       \o GroupSeq(series.cats, {g \in K : Cardinality(g) > 1})
         IN  IF \/ \E g, h \in K : g # h /\ g \cap h # {}
                \/ \E g \in K : \E c \in g : c \notin Range(series.cats)
                \/ \E g \in K : g = {}
             THEN [exc |-> "ValueError", series |-> series, colors |-> colors]
             ELSE [exc |-> "",
                   series |->
                       [cats |-> [k \in DOMAIN groups |-> JoinNames(groups[k])],
                        lab |-> [i \in DOMAIN series.lab |->
                                    IF \E g \in K : series.lab[i] \in g
                                    THEN JoinNames(CHOOSE g \in K : series.lab[i] \in g)
                                    ELSE NoLabel]],
                   colors |->
                       [k \in DOMAIN groups |->
                           UNION {colors[CatPos(series.cats, c)] : c \in groups[k]}]]

(***************************************************************************)
(* compute_lin_probs, lines 623-726.  The result of a handler is the new   *)
(* session record m, the Lineage object newly bound to .lin_probs (if      *)
(* any), whether the dataset was given it too, and the exception raised    *)
(* (empty for none), with the text of its message, and the warnings.       *)
(***************************************************************************)
Result(m, newlin, commit, exc, msg, warn) ==
    [m |-> m, newlin |-> newlin, commit |-> commit, exc |-> exc, msg |-> msg, warn |-> warn]

MsgApproxRcs == "Compute approximate recurrent classes first as .compute_approx_rcs()"

MsgEig == "Compute eigendecomposition first as .compute_eig()"

MsgLinProbs == "Compute lineage probabilities first as .compute_lin_probs()."

WarnOneClass == "There is only one recurrent class, all cells will have probability 1 of going there"

WarnNotIrreducible == "Restriction Q is not irreducible"

WarnIrreducible == "The transition matrix is irreducible - cannot further partition it"

\* A variant without the check of line 623.
LinProbsNeedsLabels_Never(m) == FALSE

\* line 623: the labeling precondition.
LinProbsNeedsLabels(m) == m.approx_rcs = None

\* lines 652-656: Lineage(np.empty((1, len(colors_))), ...); the entries
\* are uninitialised memory, here the values of `garbage`.
EmptyLineage(approx_rcs_, colors_, garbage) ==
    [X |-> [i \in {0} |-> [c \in 0 .. Len(colors_) - 1 |-> garbage[c]]],
     names |-> approx_rcs_.cats, colors |-> colors_]

\* lines 676-680
CheckIrred(m, t, check_irred) ==
    IF check_irred /\ m.is_irreducible = None THEN compute_partition(m, t) ELSE m

\* line 684 raises.  With no transient state the system is empty, and
\* whether scipy raises on it depends on its version (empty_raises).
SolveRaises(t, approx_rcs_, empty_raises) ==
    IF trans_indices(approx_rcs_) = <<>> THEN empty_raises ELSE SolveFails(t, approx_rcs_)

\* lines 706-712 on the result of lines 686-703.
AbsClasses(t, approx_rcs_, norm_by_frequ) ==
    SetRecurrentRows(AbsClassesTransient(t, approx_rcs_, norm_by_frequ), approx_rcs_)

\* A variant that stores the restricted labeling in the session.
StoredLabeling_Restricted(m, approx_rcs_) == Some(approx_rcs_)

\* lines 645-647: the restricted labeling is bound to the local name
\* approx_rcs_; self._approx_rcs is not assigned.
StoredLabeling(m, approx_rcs_) == m.approx_rcs

compute_lin_probs(m, t, keys, check_irred, norm_by_frequ, garbage, empty_raises) ==
    IF LinProbsNeedsLabels(m) THEN Result(m, None, FALSE, "RuntimeError", MsgApproxRcs, {})
    ELSE IF m.approx_rcs = None THEN Result(m, None, FALSE, "AttributeError", "", {})
    ELSE
    LET m1 == check_and_create_colors(m)
        ps == process_series(Get(m1.approx_rcs), keys, Get(m1.approx_rcs_colors))
        approx_rcs_ == ps.series
        empty == EmptyLineage(approx_rcs_, ps.colors, garbage)
        m2 == [CheckIrred(m1, t, check_irred) EXCEPT
                  !.approx_rcs = StoredLabeling(m1, approx_rcs_)]
        warn == (IF Len(approx_rcs_.cats) = 1 THEN {WarnOneClass} ELSE {})
                \cup (IF check_irred /\ m1.is_irreducible = None /\ Get(m2.is_irreducible)
                      THEN {WarnIrreducible} ELSE {})
                \cup (IF check_irred /\ ~Get(m2.is_irreducible)
                      THEN {WarnNotIrreducible} ELSE {})
        abs_classes == AbsClasses(t, approx_rcs_, norm_by_frequ)
        dp == DiffPotential(abs_classes)
    IN  IF ps.exc # "" THEN Result(m1, None, FALSE, ps.exc, "keys", {})
        ELSE IF SolveRaises(t, approx_rcs_, empty_raises)
        THEN Result(m2, Some(empty), FALSE, "LinAlgError", "", warn)
        ELSE IF Len(approx_rcs_.cats) = 0
        THEN Result(m2, Some(empty), FALSE, "ValueError", "concatenate", warn)
        ELSE Result([m2 EXCEPT !.dp = Some(dp),
                               !.adata.obs_lin_dp = Some(dp),
                               !.adata.uns_lin_names = Some(empty.names),
                               !.adata.uns_lin_colors = Some(empty.colors)],
                    Some([X |-> abs_classes, names |-> empty.names, colors |-> empty.colors]),
                    TRUE, "", "", warn)

(***************************************************************************)
(* set_approx_rcs, lines 317-365, through _set_categorical_labels of the   *)
(* base estimator (called without cluster_key: the dataset of the model    *)
(* has no cell-cycle scores, so p_thresh has no effect).                   *)
(***************************************************************************)
\* _merge_approx_rcs: the new labels win where they are set.
merge_approx_rcs(old, new) ==
    [cats |-> old.cats \o SelectSeq(new.cats, LAMBDA c : c \notin Range(old.cats)),
     lab |-> [i \in DOMAIN old.lab |-> IF new.lab[i] # NoLabel THEN new.lab[i] ELSE old.lab[i]]]

\* line 359: add_to_existing_error_msg
MsgAddToExisting == "Compute approximate recurrent classes first as .compute_approx_rcs()."

\* A variant without the precondition of add_to_existing: with no labeling
\* to add to, the new labels are stored as they are.
set_approx_rcs_NoPrecondition(m, rc_labels, add_to_existing) ==
    LET categories == IF add_to_existing /\ m.approx_rcs # None
                      THEN merge_approx_rcs(Get(m.approx_rcs), rc_labels)
                      ELSE rc_labels
        colors == create_categorical_colors(Len(categories.cats))
    IN  Result([m EXCEPT !.approx_rcs = Some(categories),
                         !.approx_rcs_colors = Some(colors),
                         !.adata.obs_rc = Some(categories),
                         !.adata.uns_rc_colors = Some(colors)],
               None, FALSE, "", "", {})

set_approx_rcs(m, rc_labels, add_to_existing) ==
    IF add_to_existing /\ m.approx_rcs = None
    THEN Result(m, None, FALSE, "RuntimeError", MsgAddToExisting, {})
    ELSE LET categories == IF add_to_existing
                           THEN merge_approx_rcs(Get(m.approx_rcs), rc_labels)
                           ELSE rc_labels
             colors == create_categorical_colors(Len(categories.cats))
         IN  Result([m EXCEPT !.approx_rcs = Some(categories),
                              !.approx_rcs_colors = Some(colors),
                              !.adata.obs_rc = Some(categories),
                              !.adata.uns_rc_colors = Some(colors)],
                    None, FALSE, "", "", {})

(***************************************************************************)
(* compute_eig, lines 238-261, through _compute_eig of the base estimator. *)
(* The eigensolver is an external library; `found` is what it returned:    *)
(* the k eigenvalues D (real parts), the left and right eigenvectors V_l   *)
(* and V_r (real parts, N x k) and the eigengap index.                     *)
(***************************************************************************)
compute_eig(m, t, k, found) ==
    IF k >= n_states(t) \/ k < 1
    THEN Result(m, None, FALSE, "EigenDecompositionError", "", {})
    ELSE Result([m EXCEPT !.eig = Some(found)], None, FALSE, "", "", {})

\* The number of eigenvectors an eigendecomposition holds (V.shape[1]).
n_vectors(eig) == Cardinality(DOMAIN eig.D)

(***************************************************************************)
(* _compute_approx_rcs_prob, lines 945-974.                                *)
(***************************************************************************)
ColumnOf(V, states, j) == {V[i][j] : i \in states}

\* lines 956-961: V_scaled, for the columns `use` of |V_l|.
VScaled(eig, use) ==
    LET states == DOMAIN eig.V_l
        V_pos == [i \in states |-> [c \in DOMAIN use |-> <<Abs(eig.V_l[i][use[c]]), 1>>]]
        lo(c) == FracMin(ColumnOf(V_pos, states, c))
        V_shifted == [i \in states |-> [c \in DOMAIN use |-> FracSub(V_pos[i][c], lo(c))]]
        hi(c) == FracMax(ColumnOf(V_shifted, states, c))
    IN  [i \in states |-> [c \in DOMAIN use |-> FracDiv(V_shifted[i][c], hi(c))]]

\* lines 964-965: the two assertions (np.allclose is false on NaN).
RangesCorrect(V_scaled, use) ==
    \A c \in DOMAIN use :
        /\ FracMin(ColumnOf(V_scaled, DOMAIN V_scaled, c)) = Zero
        /\ FracMax(ColumnOf(V_scaled, DOMAIN V_scaled, c)) = One

\* lines 967-974
compute_approx_rcs_prob(eig, use) ==
    LET V_scaled == VScaled(eig, use)
        V_eigs == [i \in DOMAIN V_scaled |->
                      [c \in DOMAIN use |-> FracDiv(V_scaled[i][c], eig.D[use[c]])]]
        c_ == [i \in DOMAIN V_scaled |-> FracSum(V_eigs[i], Where(DOMAIN use))]
    IN  [i \in DOMAIN c_ |-> FracDiv(c_[i], FracMax(Range(c_)))]

(***************************************************************************)
(* compute_approx_rcs, lines 437-555.                                      *)
(***************************************************************************)
Methods == {"kmeans", "louvain"}

\* A variant of line 448 without the + 1: the eigenvector at the eigengap
\* index is left out.
UseList_BeforeGap(eig, use) ==
    IF use[1] = "none" THEN IndexSeq(eig.eigengap)
    ELSE IF use[1] = "int" THEN IndexSeq(use[2])
    ELSE use[2]

\* lines 447-459: `use` as a list.  An argument is <<"none">>, <<"int", n>>,
\* <<"list", indices>> or <<"other">> (neither an int nor a sequence).
UseList(eig, use) ==
    IF use[1] = "none" THEN IndexSeq(eig.eigengap + 1)
    ELSE IF use[1] = "int" THEN IndexSeq(use[2])
    ELSE use[2]

SeqMax(q) == CHOOSE x \in Range(q) : \A y \in Range(q) : y <= x

\* A variant of line 462 that is off by one: the index of the last
\* computed eigenvector is refused too.
TooFewVectors_LastRefused(eig, use) == SeqMax(use) >= n_vectors(eig) - 1

\* line 462
TooFewVectors(eig, use) == SeqMax(use) >= n_vectors(eig)

\* The k-th smallest (from 0) of the values col[i].
KthSmallest(col, k) ==
    CHOOSE v \in Range(col) :
        /\ Cardinality({i \in DOMAIN col : col[i] < v}) <= k
        /\ k < Cardinality({i \in DOMAIN col : col[i] <= v})

\* A variant that takes the median, whatever q.
Percentile_Median(col, q) ==
    LET n == Cardinality(DOMAIN col)
        lo == ((n - 1) * 50) \div 100
        hi == IF lo + 1 < n THEN lo + 1 ELSE lo
        vlo == KthSmallest(col, lo)
        vhi == KthSmallest(col, hi)
    IN  Frac(100 * vlo + ((n - 1) * 50 - 100 * lo) * (vhi - vlo), 100)

\* np.percentile(col, q) by linear interpolation between order statistics.
Percentile(col, q) ==
    LET n == Cardinality(DOMAIN col)
        lo == ((n - 1) * q) \div 100
        hi == IF lo + 1 < n THEN lo + 1 ELSE lo
        vlo == KthSmallest(col, lo)
        vhi == KthSmallest(col, hi)
    IN  Frac(100 * vlo + ((n - 1) * q - 100 * lo) * (vhi - vlo), 100)

\* A variant of line 499 that inverts the test: a state is kept only if it
\* is below the cutoff in no column.
PercentileFilter_AnyColumn(eig, use, percentile) ==
    LET states == DOMAIN eig.V_l
        absV == [c \in DOMAIN use |-> [i \in states |-> Abs(eig.V_l[i][use[c]])]]
        cutoffs == [c \in DOMAIN use |-> Percentile(absV[c], percentile)]
        below(i, c) == FracLe(<<absV[c][i], 1>>, cutoffs[c]) /\ <<absV[c][i], 1>> # cutoffs[c]
    IN  {i \in states : Cardinality({c \in DOMAIN use : below(i, c)}) = 0}

\* A variant of line 499 with <= for <: a state at the cutoff counts as
\* below it.
PercentileFilter_AtOrBelow(eig, use, percentile) ==
    LET states == DOMAIN eig.V_l
        absV == [c \in DOMAIN use |-> [i \in states |-> Abs(eig.V_l[i][use[c]])]]
        cutoffs == [c \in DOMAIN use |-> Percentile(absV[c], percentile)]
        below(i, c) == FracLe(<<absV[c][i], 1>>, cutoffs[c])
    IN  {i \in states : Cardinality({c \in DOMAIN use : below(i, c)}) < Len(use)}

\* lines 498-499: the states kept by the percentile filter.
PercentileFilter(eig, use, percentile) ==
    LET states == DOMAIN eig.V_l
        absV == [c \in DOMAIN use |-> [i \in states |-> Abs(eig.V_l[i][use[c]])]]
        cutoffs == [c \in DOMAIN use |-> Percentile(absV[c], percentile)]
        below(i, c) == FracLe(<<absV[c][i], 1>>, cutoffs[c]) /\ <<absV[c][i], 1>> # cutoffs[c]
    IN  {i \in states : Cardinality({c \in DOMAIN use : below(i, c)}) < Len(use)}

\* lines 520-527: the labels of the clustering, row by row, on the states
\* kept; the categories are the labels that occur, as strings in order.
LabelName(k) == IF k = 0 THEN "0" ELSE IF k = 1 THEN "1" ELSE "2"

\* A variant of line 522 that hands the labels out in the reverse row
\* order.
FillLabels_Reversed(n, kept, labels) ==
    LET rows == Where(kept)
        used == {labels[r] : r \in DOMAIN rows}
    IN  [cats |-> [k \in DOMAIN Where(used) |-> LabelName(Where(used)[k])],
         lab |-> [i \in 0 .. n - 1 |->
                     IF i \in kept THEN LabelName(labels[Len(rows) - PosIn(rows, i)])
                     ELSE NoLabel]]

FillLabels(n, kept, labels) ==
    LET rows == Where(kept)
        used == {labels[r] : r \in DOMAIN rows}
    IN  [cats |-> [k \in DOMAIN Where(used) |-> LabelName(Where(used)[k])],
         lab |-> [i \in 0 .. n - 1 |->
                     IF i \in kept THEN LabelName(labels[PosIn(rows, i) + 1]) ELSE NoLabel]]

\* _filter_cells: the states of `stray` lose their label.
filter_cells(rc_labels, stray) ==
    [rc_labels EXCEPT !.lab = [i \in DOMAIN @ |-> IF i \in stray THEN NoLabel ELSE @[i]]]

\* A variant with the checks of lines 437 and 442 in the other order.
ApproxRcsNeedsEig_AfterMethod(m, method) == m.eig = None /\ method \in {"kmeans", "louvain"}

\* line 437: the eigendecomposition precondition.
ApproxRcsNeedsEig(m, method) == m.eig = None

\* _cluster_X: the clustering capability, one label per row it is given.
\* What it answers is its own business: it fails, or puts all rows in one
\* cluster, or alternates between two.
ClusterOutcomes == {"fails", "one", "two"}

cluster_X(n_rows, outcome) == [r \in 1 .. n_rows |-> IF outcome = "two" THEN (r - 1) % 2 ELSE 0]

\* A variant that adds the new labels to the labeling the session holds.
AddToExistingOnCommit_Merges == TRUE

\* line 544: add_to_existing=False
AddToExistingOnCommit == FALSE

\* The handler.  `outcome` is how the clustering capability behaves, and
\* `stray` the states the neighbor filter drops.
compute_approx_rcs(m, t, use, percentile, method, n_matches_min, basis, outcome, stray) ==
    IF ApproxRcsNeedsEig(m, method) THEN Result(m, None, FALSE, "RuntimeError", MsgEig, {})
    ELSE IF m.eig = None THEN Result(m, None, FALSE, "TypeError", "", {})
    ELSE IF method \notin Methods THEN Result(m, None, FALSE, "ValueError", "method", {})
    ELSE IF use[1] = "other" THEN Result(m, None, FALSE, "TypeError", "use", {})
    ELSE
    LET eig == Get(m.eig)
        use_ == UseList(eig, use)
        probs == compute_approx_rcs_prob(eig, use_)
        m1 == [m EXCEPT !.approx_rcs_probs = Some(probs), !.adata.obs_rc_probs = Some(probs)]
        states == DOMAIN eig.V_l
        kept == IF percentile = None THEN states
                ELSE PercentileFilter(eig, use_, Get(percentile))
        labels == cluster_X(Cardinality(kept), outcome)
        rc_labels == FillLabels(n_states(t), kept, labels)
        filtered == IF n_matches_min > 0 THEN filter_cells(rc_labels, stray) ELSE rc_labels
    IN  IF use_ = <<>> THEN Result(m, None, FALSE, "ValueError", "max", {})
        ELSE IF TooFewVectors(eig, use_)
        THEN Result(m, None, FALSE, "ValueError", "compute_eig(k)", {})
        ELSE IF ~RangesCorrect(VScaled(eig, use_), use_)
        THEN Result(m, None, FALSE, "AssertionError", "", {})
        ELSE IF basis # None /\ Get(basis) \notin ObsmBases
        THEN Result(m1, None, FALSE, "KeyError", "basis", {})
        ELSE IF percentile # None /\ (Get(percentile) < 0 \/ Get(percentile) > 100)
        THEN Result(m1, None, FALSE, "ValueError", "percentile", {})
        ELSE IF outcome = "fails"
        THEN Result(m1, None, FALSE, "ClusteringError", "", {})
        ELSE set_approx_rcs(m1, filtered, AddToExistingOnCommit)

(***************************************************************************)
(* plot_lin_probs, lines 764-829.  The plotting library draws and changes  *)
(* nothing.  The handler returns the array A after lines 784-788 and       *)
(* whether A is the storage of the session's Lineage object.               *)
(***************************************************************************)
Modes == {"embedding", "time"}

\* lines 784-788 on one column: every 1 becomes the largest other entry.
DimOnes(col) ==
    LET others == {col[i] : i \in {j \in DOMAIN col : col[j] # One}}
    IN  IF others = {} THEN col
        ELSE [i \in DOMAIN col |-> IF col[i] = One THEN FracMax(others) ELSE col[i]]

DimOnesInColumns(A) ==
    LET rows == DOMAIN A
        dimmed(c) == DimOnes([i \in rows |-> A[i][c]])
    IN  [i \in rows |-> [c \in DOMAIN A[i] |-> dimmed(c)[i]]]

\* Lineage.X: the values as a plain array, over the same memory.
LineageX(lin, shares_memory) == [A |-> lin.X, view |-> shares_memory]

\* Lineage[names].X: the named columns, in the order asked, in a new array.
LineageColumns(lin, names) ==
    [i \in DOMAIN lin.X |->
        [c \in 0 .. Len(names) - 1 |-> lin.X[i][PosIn(lin.names, names[c + 1])]]]

PlotResult(exc, msg, A, view) == [exc |-> exc, msg |-> msg, A |-> A, view |-> view]

plot_lin_probs(m, lin, lineages, mode, time_key, shares_memory) ==
    IF m.lin_probs = None THEN PlotResult("RuntimeError", MsgLinProbs, None, FALSE)
    ELSE IF lineages # None /\ \E k \in DOMAIN Get(lineages) : Get(lineages)[k] \notin Range(lin.names)
    THEN PlotResult("ValueError", "lineage", None, FALSE)
    ELSE
    LET got == IF lineages = None THEN LineageX(lin, shares_memory)
               ELSE [A |-> LineageColumns(lin, Get(lineages)), view |-> FALSE]
        A == DimOnesInColumns(got.A)
    IN  IF mode = "time" /\ time_key \notin ObsKeys
        THEN PlotResult("KeyError", "time_key", Some(A), got.view)
        ELSE IF mode \notin Modes
        THEN PlotResult("ValueError", "mode", Some(A), got.view)
        ELSE PlotResult("", "", Some(A), got.view)

(***************************************************************************)
(* compute_lineage_drivers, lines 873-943.  The dataset of the model has   *)
(* the layer X only, and a raw attribute; the correlations themselves are  *)
(* an external computation, so .var and .raw.var record for which          *)
(* lineages they were written.                                             *)
(***************************************************************************)
ClusterNames == {"c0", "c1"}

compute_lineage_drivers(m, lin, lin_names, cluster_key, clusters, layer, use_raw, inplace) ==
    IF m.lin_probs = None THEN Result(m, None, FALSE, "RuntimeError", MsgLinProbs, {})
    ELSE IF lin_names # None /\ \E k \in DOMAIN Get(lin_names) : Get(lin_names)[k] \notin Range(lin.names)
    THEN Result(m, None, FALSE, "KeyError", "lineage", {})
    ELSE IF cluster_key # None /\ Get(cluster_key) \notin ObsKeys
    THEN Result(m, None, FALSE, "KeyError", "cluster_key", {})
    ELSE IF clusters # None /\ (cluster_key = None \/ ~(Get(clusters) \subseteq ClusterNames))
    THEN Result(m, None, FALSE, "KeyError", "clusters", {})
    ELSE IF layer # "X" THEN Result(m, None, FALSE, "KeyError", "layer", {})
    ELSE LET names == Range(IF lin_names = None THEN lin.names ELSE Get(lin_names))
         IN  IF ~inplace THEN Result(m, None, FALSE, "", "", {})
             ELSE IF use_raw
             THEN Result([m EXCEPT !.adata.raw_var_corr = @ \cup names], None, FALSE, "", "", {})
             ELSE Result([m EXCEPT !.adata.var_corr = @ \cup names], None, FALSE, "", "", {})

(***************************************************************************)
(* copy, lines 999-1016.  Each operator gives the object the new session   *)
(* holds for an object of the old one: `fresh` is a new object with the    *)
(* same contents, `ref` the old object itself.                             *)
(***************************************************************************)
\* A variant that hands the copy the Lineage of the original.
copy_lin_probs_Shared(ref, fresh) == ref

\* line 1009: copy(self.lineage_probabilities) is ndarray.__copy__
copy_lin_probs(ref, fresh) == fresh

\* line 1001: self.adata.copy() copies every array the dataset holds
copy_adata_obsm(ref, fresh) == fresh

\* A variant that leaves the copy without the class labeling.
copy_approx_rcs_Dropped(series) == None

\* line 1010: copy(self.approx_recurrent_classes); a series is a value of
\* the model, so that its copy is the same value.
copy_approx_rcs(series) == series

(***************************************************************************)
(* State.  T is the transition matrix of the kernel, shared by a session   *)
(* and its copy.  mc[s] is session s (None until it exists).  A Lineage    *)
(* is a mutable array, and sessions and datasets hold references to it:    *)
(* heap maps each live reference to the array's present value.  ret is     *)
(* the last call as its caller saw it: the session, the operation, its     *)
(* arguments, the exception raised and the warnings logged; calls counts   *)
(* the calls made so far.                                                  *)
(***************************************************************************)
VARIABLES T, mc, heap, ret, calls

vars == <<T, mc, heap, ret, calls>>

Sessions == {1, 2}

M(s) == Get(mc[s])

\* The value of session s's lineage_probabilities (None if unset).
LinProbs(s) == IF M(s).lin_probs = None THEN None ELSE Some(heap[Get(M(s).lin_probs)])

\* The references held by the sessions, in a fixed order.
RefSlots(mcs) ==
    LET slots(s) == IF mcs[s] = None THEN <<None, None>>
                    ELSE <<Get(mcs[s]).lin_probs, Get(mcs[s]).adata.obsm_lin>>
    IN  slots(1) \o slots(2)

\* References are renumbered in the order of RefSlots and unreferenced
\* arrays are dropped, so that a state does not depend on allocation order.
FirstSlot(R, r) == SetMin({k \in DOMAIN R : R[k] = Some(r)})

CanonRef(R, r) ==
    Cardinality({Get(R[k]) : k \in {j \in 1 .. FirstSlot(R, r) - 1 : R[j] # None}}) + 1

CanonOpt(R, o) == IF o = None THEN None ELSE Some(CanonRef(R, Get(o)))

CanonSessions(mcs) ==
    LET R == RefSlots(mcs)
    IN  [s \in Sessions |->
            IF mcs[s] = None THEN None
            ELSE Some([Get(mcs[s]) EXCEPT !.lin_probs = CanonOpt(R, @),
                                          !.adata.obsm_lin = CanonOpt(R, @)])]

CanonHeap(mcs, h) ==
    LET R == RefSlots(mcs)
        live == {Get(R[k]) : k \in {j \in DOMAIN R : R[j] # None}}
    IN  [n \in {CanonRef(R, r) : r \in live} |->
            h[CHOOSE r \in live : CanonRef(R, r) = n]]

NewRef(h) == IF DOMAIN h = {} THEN 1 ELSE (CHOOSE r \in DOMAIN h : \A q \in DOMAIN h : q <= r) + 1

\* The state after handler result res of operation op on session s.
Returns(s, op, args, res) ==
    LET r == NewRef(heap)
        m == IF res.newlin = None THEN res.m
             ELSE [res.m EXCEPT !.lin_probs = Some(r),
                                !.adata.obsm_lin = IF res.commit THEN Some(r) ELSE @]
        h == IF res.newlin = None THEN heap
             ELSE [q \in DOMAIN heap \cup {r} |-> IF q = r THEN Get(res.newlin) ELSE heap[q]]
        mcs == [mc EXCEPT ![s] = Some(m)]
    IN  /\ mc' = CanonSessions(mcs)
        /\ heap' = CanonHeap(mcs, h)
        /\ ret' = [on |-> s, op |-> op, args |-> args,
                   exc |-> res.exc, msg |-> res.msg, warn |-> res.warn]
        /\ T' = T /\ calls' = calls + 1

(***************************************************************************)
(* Inputs.                                                                 *)
(***************************************************************************)
\* The generic family: every row-stochastic matrix over NStates states
\* whose entries are multiples of 1/Grain.
NStates == 2

Grain == 1

StochasticRows(n, g) ==
    {r \in [0 .. n - 1 -> 0 .. g] : FracSum([j \in 0 .. n - 1 |-> <<r[j], 1>>], IndexSeq(n)) = <<g, 1>>}

ChainFamily(n, g) == {[den |-> g, num |-> f] : f \in [0 .. n - 1 -> StochasticRows(n, g)]}

Chain(den, rows) == [den |-> den, num |-> Vec([k \in DOMAIN rows |-> Vec(rows[k])])]

\* The 4-state chain of the concrete scenario: 0 and 1 absorbing,
\* T[2,0] = T[2,1] = 1/2, T[3,0] = 1/4, T[3,2] = 3/4.
ScenarioChain == Chain(4, <<<<4, 0, 0, 0>>, <<0, 4, 0, 0>>, <<2, 2, 0, 0>>, <<1, 0, 3, 0>>>>)

\* Three absorbing states.
IdentityChain == Chain(1, <<<<1, 0, 0>>, <<0, 1, 0>>, <<0, 0, 1>>>>)

\* An irreducible chain: the cycle 0 -> 1 -> 2 -> 0.
CycleChain == Chain(1, <<<<0, 1, 0>>, <<0, 0, 1>>, <<1, 0, 0>>>>)

\* State 0 absorbing, state 1 leaks to 0 and to the closed pair {2, 3}.
ClosedPairChain == Chain(2, <<<<2, 0, 0, 0>>, <<1, 0, 1, 0>>, <<0, 0, 1, 1>>, <<0, 0, 1, 1>>>>)

\* Two absorbing states and a transient one with a self-loop.
BranchChain == Chain(4, <<<<4, 0, 0>>, <<0, 4, 0>>, <<1, 2, 1>>>>)

FixtureChains == {ScenarioChain, IdentityChain, CycleChain, ClosedPairChain, BranchChain}

\* Every categorical series over n states with categories among A, B.
CategoryLists == {<<>>, <<"A">>, <<"B">>, <<"A", "B">>}

Labelings(n) ==
    UNION {{[cats |-> cs, lab |-> l] : l \in [0 .. n - 1 -> Range(cs) \cup {NoLabel}]} :
              cs \in CategoryLists}

(***************************************************************************)
(* Operations.                                                             *)
(***************************************************************************)
\* The uninitialised entries matter only when the placeholder outlives the
\* call, and empty_raises only when there is no transient state.
ComputeLinProbs(s, keyset, irredset) ==
    /\ mc[s] # None
    /\ \E keys \in keyset, check_irred \in irredset, norm_by_frequ \in BOOLEAN :
          LET args == [keys |-> keys, check_irred |-> check_irred,
                       norm_by_frequ |-> norm_by_frequ]
              try(garbage, empty_raises) ==
                  compute_lin_probs(M(s), T, keys, check_irred, norm_by_frequ,
                                    garbage, empty_raises)
              zeros == [c \in 0 .. Len(Get(M(s).approx_rcs).cats) |-> Zero]
              first == try(zeros, TRUE)
          IN  IF first.newlin = None \/ first.commit
              THEN Returns(s, "compute_lin_probs", args, first)
              ELSE \E garbage \in [DOMAIN Get(first.newlin).X[0] -> {Zero, One}],
                      empty_raises \in {TRUE} \cup {b \in {FALSE} : try(zeros, FALSE).commit} :
                      Returns(s, "compute_lin_probs", args, try(garbage, empty_raises))

SetApproxRcs(s, labelings) ==
    /\ mc[s] # None
    /\ \E rc_labels \in labelings, add_to_existing \in BOOLEAN :
          Returns(s, "set_approx_rcs",
                  [rc_labels |-> rc_labels, add_to_existing |-> add_to_existing],
                  set_approx_rcs(M(s), rc_labels, add_to_existing))

NoCall == [on |-> 0, op |-> "", args |-> <<>>, exc |-> "", msg |-> "", warn |-> {}]

ComputePartition(s) ==
    /\ mc[s] # None
    /\ LET m == compute_partition(M(s), T)
       IN  Returns(s, "compute_partition", <<>>,
                   Result(m, None, FALSE, "", "",
                          IF Get(m.is_irreducible) THEN {WarnIrreducible} ELSE {}))

ComputeEig(s, ks, eigs) ==
    /\ mc[s] # None
    /\ \E k \in ks : \E found \in {e \in eigs : n_vectors(e) = k \/ k >= n_states(T)} :
          Returns(s, "compute_eig", [k |-> k], compute_eig(M(s), T, k, found))

\* How the clustering behaves matters only when it is reached, and the
\* neighbor filter runs only after it and when n_matches_min > 0.
ComputeApproxRcs(s, argsets, strays) ==
    /\ mc[s] # None
    /\ \E a \in argsets :
          LET try(outcome, stray) ==
                  compute_approx_rcs(M(s), T, a.use, a.percentile, a.method,
                                     a.n_matches_min, a.basis, outcome, stray)
              first == try("one", {})
          IN  IF first.exc # ""
              THEN Returns(s, "compute_approx_rcs", a, first)
              ELSE \E outcome \in ClusterOutcomes,
                      stray \in {x \in strays : x = {} \/ a.n_matches_min > 0} :
                      /\ outcome = "fails" => stray = {}
                      /\ Returns(s, "compute_approx_rcs", a, try(outcome, stray))

\* Whether Lineage.X shares the memory of the Lineage is not fixed by the
\* sources at hand: both outcomes are possible.
PlotLinProbs(s, argsets) ==
    /\ mc[s] # None
    /\ \E a \in argsets, shares_memory \in BOOLEAN :
          LET m == M(s)
              res == plot_lin_probs(m, Get(LinProbs(s)), a.lineages, a.mode, a.time_key,
                                    shares_memory)
          IN  /\ (a.lineages # None \/ m.lin_probs = None) => shares_memory
              /\ mc' = mc
              /\ heap' = IF res.A # None /\ res.view
                         THEN [heap EXCEPT ![Get(m.lin_probs)].X = Get(res.A)]
                         ELSE heap
              /\ ret' = [on |-> s, op |-> "plot_lin_probs", args |-> a,
                         exc |-> res.exc, msg |-> res.msg, warn |-> {}]
              /\ T' = T /\ calls' = calls + 1

ComputeLineageDrivers(s, argsets) ==
    /\ mc[s] # None
    /\ \E a \in argsets :
          Returns(s, "compute_lineage_drivers", a,
                  compute_lineage_drivers(M(s), Get(LinProbs(s)), a.lin_names, a.cluster_key,
                                          a.clusters, a.layer, a.use_raw, a.inplace))

\* copy of session s, kept as session c.  Every field but the Lineage
\* arrays is a value no operation changes in place, so that giving the copy
\* the same value is giving it a copy.
Copy(s, c) ==
    /\ mc[s] # None /\ mc[c] = None
    /\ LET m == M(s)
           r1 == NewRef(heap)
           r2 == r1 + 1
           lin == IF m.lin_probs = None THEN None
                  ELSE Some(copy_lin_probs(Get(m.lin_probs), r1))
           obsm == IF m.adata.obsm_lin = None THEN None
                   ELSE Some(copy_adata_obsm(Get(m.adata.obsm_lin), r2))
           h == [q \in DOMAIN heap \cup ({r1} \cap {Get(o) : o \in {lin} \ {None}})
                                   \cup ({r2} \cap {Get(o) : o \in {obsm} \ {None}}) |->
                    IF q = r1 THEN heap[Get(m.lin_probs)]
                    ELSE IF q = r2 THEN heap[Get(m.adata.obsm_lin)]
                    ELSE heap[q]]
           mcs == [mc EXCEPT ![c] = Some([m EXCEPT !.lin_probs = lin, !.adata.obsm_lin = obsm,
                                               !.approx_rcs = copy_approx_rcs(@)])]
       IN  /\ mc' = CanonSessions(mcs)
           /\ heap' = CanonHeap(mcs, h)
           /\ ret' = [on |-> s, op |-> "copy", args |-> [as |-> c],
                      exc |-> "", msg |-> "", warn |-> {}]
           /\ T' = T /\ calls' = calls + 1

(***************************************************************************)
(* The absorption solver on its own: any chain of the family or of the     *)
(* fixtures, any labeling set by set_approx_rcs, then one call of          *)
(* compute_lin_probs without check_irred.                                  *)
(***************************************************************************)
InitAbsorb ==
    /\ T \in ChainFamily(NStates, Grain) \cup FixtureChains
    /\ \E rc_labels \in Labelings(n_states(T)) :
          mc = [s \in Sessions |->
                   IF s = 1 THEN Some(set_approx_rcs(FreshSession, rc_labels, FALSE).m)
                   ELSE None]
    /\ heap = <<>>
    /\ ret = NoCall
    /\ calls = 0

\* keys is left out, or names the class A alone.
AbsorbKeys == {None, Some({{"A"}})}

NextAbsorb == calls = 0 /\ ComputeLinProbs(1, AbsorbKeys, {FALSE})

SpecAbsorb == InitAbsorb /\ [][NextAbsorb]_vars

(***************************************************************************)
(* A session from construction on: every operation, in any order, with     *)
(* the default arguments and with each argument changed in turn.           *)
(***************************************************************************)
SessionChains == {BranchChain, CycleChain}

Half == <<1, 2>>

\* What the eigensolver can return: eigenvector columns with a ramp, a
\* constant and a single peak of negative sign.
Ramp(n) == [i \in 0 .. n - 1 |-> i]

Flat(n) == [i \in 0 .. n - 1 |-> 1]

Peak(n) == [i \in 0 .. n - 1 |-> IF i = n - 1 THEN -2 ELSE 0]

Eig(n, cols, D, eigengap) ==
    [D |-> Vec(D), eigengap |-> eigengap,
     V_l |-> [i \in 0 .. n - 1 |-> [j \in 0 .. Len(cols) - 1 |-> cols[j + 1][i]]]]

Eigs(n) ==
    {Eig(n, <<Ramp(n), Peak(n)>>, <<One, Half>>, 1),
     Eig(n, <<Flat(n), Ramp(n)>>, <<One, Half>>, 0)}

DefaultApproxRcs ==
    [use |-> <<"none">>, percentile |-> Some(98), method |-> "kmeans",
     n_matches_min |-> 0, basis |-> None]

ApproxRcsCalls ==
    {DefaultApproxRcs,
     [DefaultApproxRcs EXCEPT !.use = <<"list", <<0, 5>>>>],
     [DefaultApproxRcs EXCEPT !.percentile = Some(101)],
     [DefaultApproxRcs EXCEPT !.method = "spectral"],
     [DefaultApproxRcs EXCEPT !.basis = Some("pca")]}

Strays(n) == {{}, {n - 1}}

\* Labels known a priori: two classes of one state each, and one class of
\* one state.
UserLabelings(n) ==
    {[cats |-> <<"A", "B">>, lab |-> [i \in 0 .. n - 1 |-> IF i = 0 THEN "A" ELSE IF i = 1 THEN "B" ELSE NoLabel]],
     [cats |-> <<"A">>, lab |-> [i \in 0 .. n - 1 |-> IF i = 0 THEN "A" ELSE NoLabel]]}

SessionKeys == {None, Some({{"Z"}})}

DefaultPlot == [lineages |-> None, mode |-> "embedding", time_key |-> "latent_time"]

PlotCalls ==
    {DefaultPlot, [DefaultPlot EXCEPT !.lineages = Some(<<"A">>)],
     [DefaultPlot EXCEPT !.lineages = Some(<<"Z">>)],
     [DefaultPlot EXCEPT !.mode = "time", !.time_key = "pseudotime"],
     [DefaultPlot EXCEPT !.mode = "scatter"]}

DefaultDrivers ==
    [lin_names |-> None, cluster_key |-> Some("clusters"), clusters |-> None,
     layer |-> "X", use_raw |-> TRUE, inplace |-> TRUE]

DriversCalls ==
    {DefaultDrivers, [DefaultDrivers EXCEPT !.lin_names = Some(<<"Z">>)],
     [DefaultDrivers EXCEPT !.use_raw = FALSE]}

\* The number of calls followed from construction.
MaxCalls == 3

Init ==
    /\ T \in SessionChains
    /\ mc = [s \in Sessions |-> IF s = 1 THEN Some(FreshSession) ELSE None]
    /\ heap = <<>>
    /\ ret = NoCall
    /\ calls = 0

Next ==
    /\ calls < MaxCalls
    /\ \/ ComputePartition(1)
       \/ ComputeEig(1, {2, n_states(T)}, Eigs(n_states(T)))
       \/ ComputeApproxRcs(1, ApproxRcsCalls, Strays(n_states(T)))
       \/ SetApproxRcs(1, UserLabelings(n_states(T)))
       \/ ComputeLinProbs(1, SessionKeys, BOOLEAN)
       \/ PlotLinProbs(1, PlotCalls)
       \/ ComputeLineageDrivers(1, DriversCalls)

Spec == Init /\ [][Next]_vars

(***************************************************************************)
(* Claims about the absorption probabilities.                              *)
(***************************************************************************)
\* The call the caller last saw return normally.
Succeeded(op) == ret.op = op /\ ret.exc = ""

\* The labeling compute_lin_probs worked on: the session's, restricted to
\* the `keys` of the call.
Processed ==
    process_series(Get(M(ret.on).approx_rcs), ret.args.keys, Get(M(ret.on).approx_rcs_colors))

ProcessedLabels == Processed.series

LinX == Get(LinProbs(ret.on)).X

RowSum(row) == FracSum(row, Where(DOMAIN row))

\* Every entry of the row is strictly between 0 and 1.
StrictlyInside(row) ==
    \A c \in DOMAIN row : FracLe(Zero, row[c]) /\ FracLe(row[c], One) /\ row[c] \notin {Zero, One}

\* C1: after a successful compute_lin_probs, the row of every state that
\* carries class c in the keys-processed labeling is the one-hot vector at
\* c's column: 1 there and 0 in every other column.
C1_RecurrentRowsOneHot ==
    Succeeded("compute_lin_probs") =>
        \A i \in StatesOf(T) : \A k \in DOMAIN ProcessedLabels.cats :
            ProcessedLabels.lab[i] = ProcessedLabels.cats[k] =>
                \A c \in DOMAIN LinX[i] : LinX[i][c] = IF c = k - 1 THEN One ELSE Zero

\* C1 happens: a labeled state beside a transient state whose row is split
\* between two classes, with norm_by_frequ set.
C1_Witness ==
    /\ Succeeded("compute_lin_probs")
    /\ ret.args.norm_by_frequ
    /\ Len(ProcessedLabels.cats) = 2
    /\ \E i, j \in StatesOf(T) :
          /\ ProcessedLabels.lab[i] = ProcessedLabels.cats[2]
          /\ LinX[i] = Vec(<<Zero, One>>)
          /\ ProcessedLabels.lab[j] = NoLabel
          /\ StrictlyInside(LinX[j])

RowIsDistribution(row) ==
    /\ RowSum(row) = One
    /\ \A c \in DOMAIN row : FracLe(Zero, row[c]) /\ FracLe(row[c], One)

HasEmptyClass(series) == \E k \in DOMAIN series.cats : series.cats[k] \notin Range(series.lab)

ScenarioLabels ==
    [cats |-> <<"A", "B">>,
     lab |-> Vec(<<"A", "B", NoLabel, NoLabel>>)]

InScenario ==
    /\ T = ScenarioChain
    /\ Succeeded("compute_lin_probs")
    /\ ProcessedLabels = ScenarioLabels

\* Lines 684-698 on the chain and labeling of the last call: the class-level
\* absorption probabilities before normalization, one row per transient
\* state in index order.
BeforeNormalization == AggregateClasses(AbsStates(T, ProcessedLabels), ProcessedLabels)

\* C3 as stated: on the scenario the solve and the aggregation give,
\* before normalization, [1/2, 1/2] for state 2 and [1/4, 3/4] for state 3.
C3_ScenarioRowsAsStated ==
    InScenario =>
        /\ BeforeNormalization[0] = Vec(<<Half, Half>>)
        /\ BeforeNormalization[1] = Vec(<<<<1, 4>>, <<3, 4>>>>)

\* C3 amended: on the scenario the solve and the aggregation give, before
\* normalization, [1/2, 1/2] for state 2 and [5/8, 3/8] for state 3 (1/4
\* directly into A plus 3/4 through state 2, which splits evenly); the
\* rows already sum to 1, so that without norm_by_frequ they are the rows
\* of the result.
C3_ScenarioRows ==
    InScenario =>
        /\ BeforeNormalization[0] = Vec(<<Half, Half>>)
        /\ BeforeNormalization[1] = Vec(<<<<5, 8>>, <<3, 8>>>>)
        /\ ~ret.args.norm_by_frequ =>
              LinX[2] = BeforeNormalization[0] /\ LinX[3] = BeforeNormalization[1]

\* C3 happens: the scenario has been solved, without norm_by_frequ, and
\* state 3 mostly ends in A.
C3_Witness ==
    /\ InScenario
    /\ ~ret.args.norm_by_frequ
    /\ LinX[3] = Vec(<<<<5, 8>>, <<3, 8>>>>)

\* The keys name classes of the labeling, and exactly one class is left.
OneClass == Processed.exc = "" /\ Len(ProcessedLabels.cats) = 1

AllOnesColumn == \A i \in StatesOf(T) : LinX[i] = Vec(<<One>>)

ZeroPotential == Get(M(ret.on).dp) = [i \in StatesOf(T) |-> EntropyZero]

C4_WitnessRaised ==
    /\ ret.op = "compute_lin_probs" /\ ret.exc = "LinAlgError"
    /\ OneClass
    /\ WarnOneClass \in ret.warn

(***************************************************************************)
(* A session and its copy: the operations on either, and copy of the       *)
(* first as the second.                                                    *)
(***************************************************************************)
\* The number of calls followed on a session and its copy.
MaxCopyCalls == 4

InitCopy ==
    /\ T = BranchChain
    /\ mc = [s \in Sessions |-> IF s = 1 THEN Some(FreshSession) ELSE None]
    /\ heap = <<>>
    /\ ret = NoCall
    /\ calls = 0

NextCopy ==
    /\ calls < MaxCopyCalls
    /\ \/ Copy(1, 2)
       \/ \E s \in Sessions :
             \/ ComputePartition(s)
             \/ ComputeEig(s, {2}, Eigs(n_states(T)))
             \/ ComputeApproxRcs(s, {DefaultApproxRcs}, {{}})
             \/ SetApproxRcs(s, UserLabelings(n_states(T)))
             \/ ComputeLinProbs(s, {None}, {FALSE})
             \/ PlotLinProbs(s, {DefaultPlot})
             \/ ComputeLineageDrivers(s, {DefaultDrivers})

SpecCopy == InitCopy /\ [][NextCopy]_vars

(***************************************************************************)
(* Claims about what a call leaves alone.  A step of the model is one      *)
(* call; ret' is that call.                                                *)
(***************************************************************************)
\* The value of the Lineage the dataset of session s holds.
ObsmLin(s) ==
    IF M(s).adata.obsm_lin = None THEN None ELSE Some(heap[Get(M(s).adata.obsm_lin)])

\* Everything session s holds, by value.
SessionState(s) ==
    IF mc[s] = None THEN None
    ELSE Some([m |-> [M(s) EXCEPT !.lin_probs = None, !.adata.obsm_lin = None],
               lin_probs |-> LinProbs(s), obsm_lin |-> ObsmLin(s)])

Raised(op) == ret'.op = op /\ ret'.exc # ""

\* C5 as stated: whenever compute_lin_probs raises after the labeling
\* precondition has passed, lineage_probabilities, diff_potential and the
\* class colors are what they were before the call.
C5_FailedLinProbsCommitsNothing ==
    [][(Raised("compute_lin_probs") /\ M(1).approx_rcs # None) =>
          /\ LinProbs(1)' = LinProbs(1)
          /\ M(1).dp' = M(1).dp
          /\ M(1).approx_rcs_colors' = M(1).approx_rcs_colors]_vars

\* C6 as stated: whenever compute_approx_rcs raises, every piece of
\* derived session state, approx_recurrent_classes_probabilities and its
\* dataset column included, is what it was before the call.
C6_FailedApproxRcsCommitsNothing ==
    [][Raised("compute_approx_rcs") => SessionState(1)' = SessionState(1)]_vars

\* C7: compute_lin_probs on a session without class labeling raises the
\* error that tells the caller to compute approximate recurrent classes
\* first, and changes nothing of the session or its dataset.
C7_LinProbsNeedsLabeling ==
    [][(ret'.op = "compute_lin_probs" /\ M(1).approx_rcs = None) =>
          /\ ret'.exc = "RuntimeError" /\ ret'.msg = MsgApproxRcs
          /\ SessionState(1)' = SessionState(1)
          /\ T' = T]_vars

\* C7 happens: the call was refused on a session that had an
\* eigendecomposition but no partition, with check_irred set, which would
\* otherwise have computed the partition.
C7_Witness ==
    /\ ret.op = "compute_lin_probs" /\ ret.exc = "RuntimeError" /\ ret.msg = MsgApproxRcs
    /\ ret.args.check_irred
    /\ M(1).approx_rcs = None /\ M(1).is_irreducible = None /\ M(1).eig # None

\* C8: compute_approx_rcs on a session without eigendecomposition raises
\* the precondition error that names compute_eig, whatever the other
\* arguments, and changes nothing of the session.
C8_ApproxRcsNeedsEig ==
    [][(ret'.op = "compute_approx_rcs" /\ M(1).eig = None) =>
          /\ ret'.exc = "RuntimeError" /\ ret'.msg = MsgEig
          /\ SessionState(1)' = SessionState(1)]_vars

\* C8 happens: the call was refused with a method that does not exist, on
\* a session that already had a labeling.
C8_Witness ==
    /\ ret.op = "compute_approx_rcs" /\ ret.exc = "RuntimeError" /\ ret.msg = MsgEig
    /\ ret.args.method \notin Methods
    /\ M(1).eig = None /\ M(1).approx_rcs # None

\* C8 happens with an out-of-range percentile as well.
C8_WitnessPercentile ==
    /\ ret.op = "compute_approx_rcs" /\ ret.exc = "RuntimeError" /\ ret.msg = MsgEig
    /\ ret.args.percentile = Some(101)
    /\ M(1).eig = None

\* C9: copy gives the new session the derived state of the original, and
\* from then on a call on either session leaves everything the other
\* holds as it was.
C9_CopyIsIndependent ==
    [][/\ ret'.op = "copy" =>
             /\ SessionState(2)' = SessionState(1)
             /\ SessionState(1)' = SessionState(1)
       /\ \A s \in Sessions :
             (ret'.op # "copy" /\ ret'.on # s) => SessionState(s)' = SessionState(s)]_vars

\* C9 happens: after the copy, plot_lin_probs on one session wrote into
\* its lineage probabilities, and the other session still has the ones.
C9_Witness ==
    /\ mc[1] # None /\ mc[2] # None
    /\ ret.op = "plot_lin_probs" /\ ret.exc = ""
    /\ M(1).lin_probs # None /\ M(2).lin_probs # None
    /\ LinProbs(1) # LinProbs(2)
    /\ LET other == IF ret.on = 1 THEN 2 ELSE 1
       IN  /\ \E i \in StatesOf(T) : One \in Range(Get(LinProbs(other)).X[i])
           /\ \A i \in StatesOf(T) : One \notin Range(Get(LinProbs(ret.on)).X[i])

\* C10 as stated: the stored lineage probabilities are changed only by
\* compute_lin_probs; plot_lin_probs and compute_lineage_drivers leave
\* every entry unchanged.
C10_OnlyComputeLinProbsWrites ==
    [][ret'.op # "compute_lin_probs" => LinProbs(1)' = LinProbs(1)]_vars

\* C10 for compute_lineage_drivers alone.
C10_DriversLeaveLinProbs ==
    [][ret'.op = "compute_lineage_drivers" => LinProbs(1)' = LinProbs(1)]_vars

(***************************************************************************)
(* Claims about the differentiation potential.                             *)
(***************************************************************************)
\* The differentiation potential of session s is the entropy of each row
\* of its lineage probabilities.
DpFollowsLinProbs(s) ==
    /\ M(s).dp # None
    /\ DOMAIN Get(M(s).dp) = DOMAIN Get(LinProbs(s)).X
    /\ \A i \in DOMAIN Get(LinProbs(s)).X :
          Get(M(s).dp)[i] = entropy(Get(LinProbs(s)).X[i])

\* C11 as stated: after every compute_lin_probs call, successful or failed,
\* a session whose lineage_probabilities is set has diff_potential set too,
\* with one entry per row, each the Shannon entropy of that row.
C11_DiffPotentialFollows ==
    (ret.op = "compute_lin_probs" /\ M(1).lin_probs # None) => DpFollowsLinProbs(1)

\* C11 for the calls that return: then diff_potential is the entropy of
\* the rows of the matrix just stored.
C11_DiffPotentialAfterSuccess ==
    Succeeded("compute_lin_probs") => DpFollowsLinProbs(1)

(***************************************************************************)
(* The partition on its own: any chain of the family or of the fixtures,   *)
(* with any labeling of one class, and one call of compute_partition, or   *)
(* of compute_lin_probs with check_irred, which computes the partition on  *)
(* a session that has none (lines 676-678).                                *)
(***************************************************************************)
InitPartition ==
    /\ T \in ChainFamily(NStates, Grain) \cup FixtureChains
    /\ \E rc_labels \in {l \in Labelings(n_states(T)) : l.cats = <<"A">>} :
          mc = [s \in Sessions |->
                   IF s = 1 THEN Some(set_approx_rcs(FreshSession, rc_labels, FALSE).m)
                   ELSE None]
    /\ heap = <<>>
    /\ ret = NoCall
    /\ calls = 0

NextPartition ==
    /\ calls = 0
    /\ \/ ComputePartition(1)
       \/ ComputeLinProbs(1, {None}, {TRUE})

SpecPartition == InitPartition /\ [][NextPartition]_vars

\* The communication classes of the chain, recurrent and transient.
Classes == partition(T).rec \cup partition(T).trans

\* C12: the recurrent and transient classes of the partition step contain
\* every state index 0..N-1 exactly once: they are non-empty, pairwise
\* disjoint, their union is the full index range, and no class is both
\* recurrent and transient; in the class numbers compute_partition stores,
\* every state has a number in exactly one of recurrent_classes and
\* transient_classes.
C12_ClassesPartitionStates ==
    ret.op = "compute_partition" =>
        /\ UNION Classes = StatesOf(T)
        /\ \A C, D \in Classes : C # D => C \cap D = {}
        /\ {} \notin Classes
        /\ partition(T).rec \cap partition(T).trans = {}
        /\ ~Get(M(1).is_irreducible) =>
              \A i \in StatesOf(T) :
                  (Get(M(1).rec_classes)[i] >= 0) # (Get(M(1).trans_classes)[i] >= 0)

\* C12 happens: compute_partition found a recurrent class of two states
\* beside a recurrent class of one state and a transient class.
C12_Witness ==
    /\ ret.op = "compute_partition"
    /\ \E C, D \in partition(T).rec : Cardinality(C) = 2 /\ Cardinality(D) = 1
    /\ partition(T).trans # {}
    /\ \E i, j \in StatesOf(T) :
          /\ Get(M(1).rec_classes)[i] = 1 /\ Get(M(1).trans_classes)[i] = -1
          /\ Get(M(1).rec_classes)[j] = -1 /\ Get(M(1).trans_classes)[j] = 0

\* C13: whenever the session's irreducible flag is set, it is True if and
\* only if the partition of the transition matrix has exactly one
\* recurrent class and zero transient classes.
C13_IrreducibleFlag ==
    M(1).is_irreducible # None =>
        (Get(M(1).is_irreducible)
            <=> (Cardinality(partition(T).rec) = 1 /\ Cardinality(partition(T).trans) = 0))

\* C13 happens: compute_partition set the flag to False on a chain with
\* exactly one recurrent class, because it has a transient class too.
C13_Witness ==
    /\ ret.op = "compute_partition"
    /\ M(1).is_irreducible = Some(FALSE)
    /\ Cardinality(partition(T).rec) = 1
    /\ Cardinality(partition(T).trans) >= 1

\* C13 happens the other way: the flag is True on the 3-cycle.
C13_WitnessIrreducible ==
    /\ ret.op = "compute_partition"
    /\ M(1).is_irreducible = Some(TRUE)
    /\ T = CycleChain

(***************************************************************************)
(* Claims about the check_irred option of compute_lin_probs.               *)
(***************************************************************************)
\* Q of the last call (line 673): the chain restricted to the states
\* without a label, as a matrix of its own.
QChain ==
    [den |-> T.den,
     num |-> Restrict(T, trans_indices(ProcessedLabels), trans_indices(ProcessedLabels))]

\* Irreducible, as compute_partition decides it.
Irreducible(t) == Cardinality(partition(t).rec) = 1 /\ Cardinality(partition(t).trans) = 0

\* compute_lin_probs was called with check_irred and got as far as the
\* check of lines 676-680.
CheckedIrreducibility ==
    /\ ret.op = "compute_lin_probs" /\ ret.args.check_irred
    /\ M(1).approx_rcs # None
    /\ Processed.exc = ""

\* C14 as stated: with check_irred set, compute_lin_probs warns that the
\* restriction Q is not irreducible exactly when Q, the transition matrix
\* restricted to the unlabeled states, is not irreducible.
C14_WarnsIffQNotIrreducible ==
    CheckedIrreducibility => ((WarnNotIrreducible \in ret.warn) <=> ~Irreducible(QChain))

\* What lines 676-680 do: the warning is issued exactly when the whole
\* transition matrix is not irreducible.
C14_WarnsIffChainNotIrreducible ==
    CheckedIrreducibility => ((WarnNotIrreducible \in ret.warn) <=> ~Irreducible(T))

(***************************************************************************)
(* The percentile filter and the recurrence score on their own: a session  *)
(* on the 3-state chain with an eigendecomposition of two left             *)
(* eigenvectors, the first any column over a few values and the second     *)
(* one of a few shapes, and one call of compute_approx_rcs.                *)
(***************************************************************************)
\* The values an eigenvector entry takes: of both signs, with three
\* different absolute values.
EigEntries == {-2, 0, 1}

\* The second eigenvector: rising, falling, constant, or a single peak.
SecondColumns == {Vec(<<0, 1, -2>>), Vec(<<-2, 1, 0>>), Vec(<<1, 1, 1>>), Vec(<<0, 0, -2>>)}

\* The eigengap index is either of the two.
EigFamily(n) ==
    {[D |-> Vec(<<One, Half>>), eigengap |-> gap,
      V_l |-> [i \in 0 .. n - 1 |-> Vec(<<first[i], second[i]>>)]] :
        first \in [0 .. n - 1 -> EigEntries], second \in SecondColumns, gap \in {0, 1}}

Percentiles == {0, 50, 100}

FilterCalls ==
    {[DefaultApproxRcs EXCEPT !.use = <<"list", u>>, !.percentile = Some(q)] :
        u \in {<<0>>, <<0, 1>>}, q \in Percentiles}
    \cup {[DefaultApproxRcs EXCEPT !.use = u] :
             u \in {<<"none">>, <<"int", 0>>, <<"int", 2>>, <<"int", 3>>, <<"list", <<0, 2>>>>}}
    \cup {[DefaultApproxRcs EXCEPT !.use = <<"list", <<0, 1>>>>, !.percentile = Some(50),
                                    !.n_matches_min = 1]}

InitFilter ==
    /\ T = BranchChain
    /\ \E found \in EigFamily(n_states(T)) :
          mc = [s \in Sessions |->
                   IF s = 1 THEN Some(compute_eig(FreshSession, T, 2, found).m) ELSE None]
    /\ heap = <<>>
    /\ ret = NoCall
    /\ calls = 0

NextFilter == calls = 0 /\ ComputeApproxRcs(1, FilterCalls, Strays(n_states(T)))

SpecFilter == InitFilter /\ [][NextFilter]_vars

(***************************************************************************)
(* Claims about the percentile filter.                                     *)
(***************************************************************************)
\* The eigenvector indices the last compute_approx_rcs call selected.
LastUse == UseList(Get(M(1).eig), ret.args.use)

\* The absolute values of the c-th selected left eigenvector.
AbsColumn(c) == [i \in StatesOf(T) |-> Abs(Get(M(1).eig).V_l[i][LastUse[c]])]

\* Its percentile cutoff.
Cutoff(c) == Percentile(AbsColumn(c), Get(ret.args.percentile))

BelowCutoff(i, c) ==
    FracLe(<<AbsColumn(c)[i], 1>>, Cutoff(c)) /\ <<AbsColumn(c)[i], 1>> # Cutoff(c)

\* The last call was a compute_approx_rcs that filtered by percentile and
\* returned, with no neighbor filter after the clustering: the states with
\* a label are the states the percentile filter kept.
Filtered(q) ==
    /\ Succeeded("compute_approx_rcs")
    /\ ret.args.percentile # None /\ Get(ret.args.percentile) \in q
    /\ ret.args.n_matches_min = 0

Retained(i) == Get(M(1).approx_rcs).lab[i] # NoLabel

\* C15: the percentile filter drops a state if and only if its absolute
\* left-eigenvector value is below the column's percentile cutoff in every
\* selected column; a state that is not below the cutoff in at least one
\* column is kept.
C15_DroppedIffBelowInEveryColumn ==
    Filtered(0 .. 100) =>
        \A i \in StatesOf(T) :
            ~Retained(i) <=> \A c \in DOMAIN LastUse : BelowCutoff(i, c)

\* C15 happens: with two columns, a state below the cutoff in one column
\* only was kept and a state below it in both was dropped.
C15_Witness ==
    /\ Filtered(0 .. 100)
    /\ Len(LastUse) = 2
    /\ \E i, j \in StatesOf(T) :
          /\ Retained(i) /\ BelowCutoff(i, 1) /\ ~BelowCutoff(i, 2)
          /\ ~Retained(j) /\ BelowCutoff(j, 1) /\ BelowCutoff(j, 2)

\* C15 happens at the median too: a state below it in one column only was
\* kept.
C15_WitnessMedian ==
    /\ Filtered({50})
    /\ Len(LastUse) = 2
    /\ \E i \in StatesOf(T) : Retained(i) /\ ~BelowCutoff(i, 1) /\ BelowCutoff(i, 2)

\* C16 as stated: with percentile=100 the percentile filter retains no
\* state: the resulting labeling has zero non-null entries.
C16_Percentile100RetainsNone ==
    Filtered({100}) => \A i \in StatesOf(T) : ~Retained(i)

\* The largest absolute value of the c-th selected column.
ColumnMax(c) == FracMax({<<AbsColumn(c)[i], 1>> : i \in StatesOf(T)})

\* C16 amended: with percentile=100 the cutoff of a column is its largest
\* absolute value, and the filter retains exactly the states that attain
\* it in at least one selected column, so at least one state; these are
\* the non-null entries of the resulting labeling.
C16_Percentile100RetainsMaxima ==
    Filtered({100}) =>
        /\ \A c \in DOMAIN LastUse : Cutoff(c) = ColumnMax(c)
        /\ \A i \in StatesOf(T) :
              Retained(i) <=> \E c \in DOMAIN LastUse : <<AbsColumn(c)[i], 1>> = ColumnMax(c)
        /\ \E i \in StatesOf(T) : Retained(i)

\* C16 happens: with percentile=100 and two columns, two states were
\* retained, each for another column, and one was dropped.
C16_Witness ==
    /\ Filtered({100})
    /\ Len(LastUse) = 2
    /\ \E i, j, k \in StatesOf(T) :
          /\ Retained(i) /\ BelowCutoff(i, 1) /\ ~BelowCutoff(i, 2)
          /\ Retained(j) /\ ~BelowCutoff(j, 1) /\ BelowCutoff(j, 2)
          /\ ~Retained(k)

\* C17: with percentile=0 the percentile filter retains every state, for
\* every eigenvector matrix and every choice of selected columns.
C17_Percentile0RetainsAll ==
    Filtered({0}) =>
        /\ \A i \in StatesOf(T) : Retained(i)
        /\ PercentileFilter(Get(M(1).eig), LastUse, 0) = StatesOf(T)

\* C17 happens: with percentile=0 and two columns, a state with the
\* smallest absolute value of both columns was retained.
C17_Witness ==
    /\ Filtered({0})
    /\ Len(LastUse) = 2
    /\ \E i \in StatesOf(T) :
          /\ Retained(i)
          /\ \A c \in DOMAIN LastUse : \A j \in StatesOf(T) : AbsColumn(c)[i] <= AbsColumn(c)[j]
          /\ \A c \in DOMAIN LastUse : \E j \in StatesOf(T) : AbsColumn(c)[i] < AbsColumn(c)[j]

(***************************************************************************)
(* Claims about the recurrence score.                                      *)
(***************************************************************************)
\* The c-th selected left eigenvector has the same absolute value in
\* every row.
ConstantColumn(c) == \A i, j \in StatesOf(T) : AbsColumn(c)[i] = AbsColumn(c)[j]

\* The last call was a compute_approx_rcs that passed the checks of lines
\* 437-467 and computed the score (line 476).
ScoreComputed ==
    /\ ret.op = "compute_approx_rcs"
    /\ M(1).eig # None
    /\ ret.args.method \in Methods
    /\ ret.args.use[1] # "other"
    /\ LastUse # <<>>
    /\ ~TooFewVectors(Get(M(1).eig), LastUse)

\* The score with the rescaled value of a constant column taken as 0.
ScoreWithConstantAsZero ==
    LET eig == Get(M(1).eig)
        V_scaled == VScaled(eig, LastUse)
        V_eigs == [i \in StatesOf(T) |->
                      [c \in DOMAIN LastUse |->
                          IF ConstantColumn(c) THEN Zero
                          ELSE FracDiv(V_scaled[i][c], eig.D[LastUse[c]])]]
        c_ == [i \in StatesOf(T) |-> FracSum(V_eigs[i], Where(DOMAIN LastUse))]
    IN  [i \in StatesOf(T) |-> FracDiv(c_[i], FracMax(Range(c_)))]

\* C18 as stated: when a selected left-eigenvector column is constant in
\* absolute value, the score computation completes without raising and
\* the column contributes a rescaled value of 0 for every row.
C18_ConstantColumnScoresZero ==
    (ScoreComputed /\ \E c \in DOMAIN LastUse : ConstantColumn(c)) =>
        /\ ret.exc # "AssertionError"
        /\ M(1).approx_rcs_probs = Some(ScoreWithConstantAsZero)

\* What lines 956-965 do: the score computation raises AssertionError
\* exactly when a selected column is constant in absolute value.
C18_ConstantColumnFailsAssertion ==
    ScoreComputed =>
        (ret.exc = "AssertionError" <=> \E c \in DOMAIN LastUse : ConstantColumn(c))

(***************************************************************************)
(* Claims about classes without member states.                             *)
(***************************************************************************)
\* The columns of the classes the labeling declares and no state carries.
EmptyClasses ==
    {c \in 0 .. Len(ProcessedLabels.cats) - 1 :
        ProcessedLabels.cats[c + 1] \notin Range(ProcessedLabels.lab)}

\* The last call was a compute_lin_probs on a labeling that declares a
\* class without members.
WithEmptyClass ==
    /\ ret.op = "compute_lin_probs"
    /\ Processed.exc = ""
    /\ EmptyClasses # {}

Unlabeled(i) == ProcessedLabels.lab[i] = NoLabel

C19_WitnessZero ==
    /\ WithEmptyClass /\ ret.exc = ""
    /\ ~ret.args.norm_by_frequ
    /\ Len(ProcessedLabels.cats) = 2
    /\ \E i \in StatesOf(T) : Unlabeled(i) /\ LinX[i] = Vec(<<One, Zero>>)

(***************************************************************************)
(* Claims about the eigenvector indices of compute_approx_rcs.             *)
(***************************************************************************)
\* A call with arguments a on session record m gets as far as the check
\* of line 462: there is an eigendecomposition, the method exists, and
\* `use` lists at least one index.
ReachesUseCheck(m, a) ==
    /\ m.eig # None
    /\ a.method \in Methods
    /\ a.use[1] # "other"
    /\ UseList(Get(m.eig), a.use) # <<>>

\* Some requested index is not below the number of computed eigenvectors.
IndexTooLarge(m, a) ==
    \E j \in DOMAIN UseList(Get(m.eig), a.use) :
        UseList(Get(m.eig), a.use)[j] >= n_vectors(Get(m.eig))

\* C20: compute_approx_rcs raises the ValueError that tells the caller to
\* recompute the eigendecomposition with a larger k whenever some
\* requested eigenvector index is greater than or equal to the number k of
\* computed eigenvectors, and does not raise it when every index is below
\* k; when it raises it, nothing the session holds has changed.
C20_UseIndexAtLeastKRefused ==
    [][(ret'.op = "compute_approx_rcs" /\ ReachesUseCheck(M(1), ret'.args)) =>
          /\ (ret'.exc = "ValueError" /\ ret'.msg = "compute_eig(k)")
                <=> IndexTooLarge(M(1), ret'.args)
          /\ IndexTooLarge(M(1), ret'.args) => SessionState(1)' = SessionState(1)]_vars

\* C20 happens: with k = 2 eigenvectors the request for the indices 0 and
\* 2 was refused, and the session still has no score and no labeling.
C20_Witness ==
    /\ ret.op = "compute_approx_rcs"
    /\ ret.exc = "ValueError" /\ ret.msg = "compute_eig(k)"
    /\ ret.args.use = <<"list", <<0, 2>>>>
    /\ n_vectors(Get(M(1).eig)) = 2
    /\ M(1).approx_rcs_probs = None /\ M(1).approx_rcs = None

\* C20 happens the other way: with k = 2 the request for the first two
\* eigenvectors was accepted and the call returned.
C20_WitnessAccepted ==
    /\ Succeeded("compute_approx_rcs")
    /\ ret.args.use = <<"int", 2>>
    /\ n_vectors(Get(M(1).eig)) = 2

(***************************************************************************)
(* Claims about set_approx_rcs.                                            *)
(***************************************************************************)
\* C21: set_approx_rcs with add_to_existing=True on a session without class
\* labeling raises the error that tells the caller to compute approximate
\* recurrent classes first, and leaves the labeling null, as everything
\* else the session holds.
C21_AddToExistingNeedsLabeling ==
    [][(ret'.op = "set_approx_rcs" /\ ret'.args.add_to_existing /\ M(1).approx_rcs = None) =>
          /\ ret'.exc # "" /\ ret'.msg = MsgAddToExisting
          /\ M(1).approx_rcs' = None
          /\ SessionState(1)' = SessionState(1)]_vars

\* C21 happens: the call was refused on a session that holds an
\* eigendecomposition and still no labeling.
C21_Witness ==
    /\ ret.op = "set_approx_rcs" /\ ret.args.add_to_existing
    /\ ret.exc # "" /\ ret.msg = MsgAddToExisting
    /\ M(1).approx_rcs = None /\ M(1).adata.obs_rc = None
    /\ M(1).eig # None

(***************************************************************************)
(* Claims about the eigenvectors compute_approx_rcs selects by default.    *)
(***************************************************************************)
\* The indices 0 .. eigengap of the session's eigendecomposition.
UpToEigengap == [j \in 1 .. Get(M(1).eig).eigengap + 1 |-> j - 1]

\* The states with a label after the last call.
RetainedStates == {i \in StatesOf(T) : Retained(i)}

\* C22: when compute_approx_rcs is called without `use`, the columns used
\* for scoring and filtering are exactly the indices 0 .. eigengap
\* inclusive: the score stored and the states kept are those of these
\* eigengap + 1 columns.
C22_DefaultUseUpToEigengap ==
    (Succeeded("compute_approx_rcs") /\ ret.args.use = <<"none">>) =>
        /\ LastUse = UpToEigengap
        /\ Len(LastUse) = Get(M(1).eig).eigengap + 1
        /\ M(1).approx_rcs_probs = Some(compute_approx_rcs_prob(Get(M(1).eig), UpToEigengap))
        /\ RetainedStates
              = PercentileFilter(Get(M(1).eig), UpToEigengap, Get(ret.args.percentile))

\* C22 happens: with two eigenvectors computed and the eigengap at index
\* 0, the call without `use` took the first eigenvector alone, and its
\* score differs from the score of both.
C22_Witness ==
    /\ Succeeded("compute_approx_rcs") /\ ret.args.use = <<"none">>
    /\ Get(M(1).eig).eigengap = 0 /\ n_vectors(Get(M(1).eig)) = 2
    /\ M(1).approx_rcs_probs = Some(compute_approx_rcs_prob(Get(M(1).eig), <<0>>))
    /\ M(1).approx_rcs_probs # Some(compute_approx_rcs_prob(Get(M(1).eig), <<0, 1>>))

\* C22 happens with the eigengap at index 1 too: both eigenvectors are
\* taken.
C22_WitnessBoth ==
    /\ Succeeded("compute_approx_rcs") /\ ret.args.use = <<"none">>
    /\ Get(M(1).eig).eigengap = 1
    /\ LastUse = <<0, 1>>

(***************************************************************************)
(* Claims about the labels compute_approx_rcs fills in.                    *)
(***************************************************************************)
\* The states the percentile filter of the last call kept, in row order.
KeptRows == Where(PercentileFilter(Get(M(1).eig), LastUse, Get(ret.args.percentile)))

\* The labeling of the session is what the answer `labels` of the
\* clustering gives: a state the filter removed has no label, and the state
\* of the r-th kept row has the r-th label, or none if the neighbor filter
\* ran and removed it.
LabelsFilledFrom(labels) ==
    \A i \in StatesOf(T) :
        IF i \notin Range(KeptRows) THEN ~Retained(i)
        ELSE \/ Get(M(1).approx_rcs).lab[i] = LabelName(labels[PosIn(KeptRows, i) + 1])
             \/ ret.args.n_matches_min > 0 /\ ~Retained(i)

\* C23: after compute_approx_rcs with a percentile filter, every state the
\* filter removed carries the null label, and every state it kept carries
\* the label the clustering returned for its row, in row order, unless the
\* neighbor filter removed it, which it can only do when it runs.
C23_LabelsFollowRows ==
    (Succeeded("compute_approx_rcs") /\ ret.args.percentile # None) =>
        \E outcome \in ClusterOutcomes \ {"fails"} :
            LabelsFilledFrom(cluster_X(Len(KeptRows), outcome))

\* C23 happens: the filter removed a state, the clustering
\* answered with two clusters for the two rows left, and each state has the
\* label of its row.
C23_Witness ==
    /\ Succeeded("compute_approx_rcs") /\ ret.args.percentile # None
    /\ ret.args.n_matches_min = 0
    /\ Len(KeptRows) = 2
    /\ Get(M(1).approx_rcs).lab[KeptRows[1]] = "0"
    /\ Get(M(1).approx_rcs).lab[KeptRows[2]] = "1"
    /\ \E i \in StatesOf(T) : i \notin Range(KeptRows) /\ ~Retained(i)

\* C23 happens with the neighbor filter: a state the percentile filter
\* kept lost its label, the other kept its own.
C23_WitnessNeighborFilter ==
    /\ Succeeded("compute_approx_rcs") /\ ret.args.percentile # None
    /\ ret.args.n_matches_min > 0
    /\ \E i, j \in Range(KeptRows) : ~Retained(i) /\ Retained(j)

(***************************************************************************)
(* cluster_fates (cellrank/plotting/_cluster_fates.py, lines 40-502): the  *)
(* plot of the lineage probabilities averaged per cluster.  It reads the   *)
(* dataset and writes nothing to it: the violin strategy stores its        *)
(* columns in a copy of the dataset (line 468) or in a dataset of its own  *)
(* (line 333).  The handler returns whether the per-cluster aggregation    *)
(* of lines 470-480 was made, and the figure: the strategy that drew it,   *)
(* the clustermap flag, and the clusters and lineages it shows.  The       *)
(* numbers drawn are left out.  The dataset is that of a forward session,  *)
(* so that it has no lineage probabilities of the backward direction.      *)
(***************************************************************************)
ClusterFatesModes == {"bar", "paga", "paga_pie", "violin", "heatmap", "clustermap"}

PagaModes == {"paga", "paga_pie"}

\* _unique_order_preserving: the first occurrence of every entry, in order.
RECURSIVE unique_order_preserving(_)
unique_order_preserving(q) ==
    IF q = <<>> THEN <<>>
    ELSE LET front == unique_order_preserving(SubSeq(q, 1, Len(q) - 1))
         IN  IF q[Len(q)] \in Range(front) THEN front ELSE Append(front, q[Len(q)])

\* Lineage[names] with a name the Lineage does not have is an error.
UnknownNames(lin, names) == \E k \in DOMAIN names : names[k] \notin Range(lin.names)

\* A variant that never looks the names up.
SelectLineages_Unchecked(lin, lineages) ==
    [lin_names |-> IF lineages = None THEN lin.names
                   ELSE unique_order_preserving(Get(lineages)),
     raises |-> FALSE]

\* lines 458-465: the lineages to show, and whether selecting them raises.
SelectLineages(lin, lineages) ==
    LET lin_names == IF lineages = None THEN lin.names
                     ELSE unique_order_preserving(Get(lineages))
    IN  [lin_names |-> lin_names, raises |-> UnknownNames(lin, lin_names)]

FatesResult(exc, msg, aggregated, fig) ==
    [exc |-> exc, msg |-> msg, aggregated |-> aggregated, fig |-> fig]

\* A variant that lets every mode through without a cluster key.
NeedsClusterKey_Never(mode, cluster_key) == FALSE

\* lines 415-416: without a cluster key, only bar and violin.
NeedsClusterKey(mode, cluster_key) == cluster_key = None /\ mode \notin {"bar", "violin"}

\* A variant that draws the clustermap mode with the flag unset.
Strategy_PlainHeatmap(mode, cluster_key) ==
    [mode |-> IF mode = "clustermap" THEN "heatmap"
              ELSE IF mode = "violin" /\ cluster_key = None THEN "violin_no_cluster_key"
              ELSE mode,
     use_clustermap |-> FALSE]

\* lines 487-490 and 497-501: the strategy that draws the figure.
Strategy(mode, cluster_key) ==
    [mode |-> IF mode = "clustermap" THEN "heatmap"
              ELSE IF mode = "violin" /\ cluster_key = None THEN "violin_no_cluster_key"
              ELSE mode,
     use_clustermap |-> mode = "clustermap"]

cluster_fates(adata, lin, mode, backward, lineages, cluster_key, clusters) ==
    IF mode \notin ClusterFatesModes THEN FatesResult("ValueError", "mode", FALSE, None)
    ELSE IF cluster_key # None /\ Get(cluster_key) \notin ObsKeys
    THEN FatesResult("KeyError", "cluster_key", FALSE, None)
    ELSE IF NeedsClusterKey(mode, cluster_key)
    THEN FatesResult("ValueError", "no cluster_key", FALSE, None)
    ELSE IF /\ cluster_key # None /\ clusters # None /\ mode \notin PagaModes
            /\ ~(Range(Get(clusters)) \subseteq ClusterNames)
    THEN FatesResult("KeyError", "clusters", FALSE, None)
    ELSE IF backward \/ adata.obsm_lin = None
    THEN FatesResult("KeyError", "lineage key", FALSE, None)
    ELSE IF SelectLineages(lin, lineages).raises
    THEN FatesResult("KeyError", "lineage", FALSE, None)
    ELSE IF mode \in PagaModes /\ ~adata.uns_paga
    THEN FatesResult("KeyError", "paga", TRUE, None)
    ELSE LET is_all == cluster_key = None
             shown == IF is_all THEN {}
                      ELSE IF clusters = None \/ mode \in PagaModes THEN ClusterNames
                      ELSE Range(unique_order_preserving(Get(clusters)))
             how == Strategy(mode, cluster_key)
         IN  FatesResult("", "", TRUE,
                         Some([strategy |-> how.mode, use_clustermap |-> how.use_clustermap,
                               is_all |-> is_all, clusters |-> shown,
                               lin_names |-> SelectLineages(lin, lineages).lin_names]))

\* cluster_fates on the dataset of session s.  The call record carries the
\* aggregation flag and the figure.
ClusterFates(s, argsets) ==
    /\ mc[s] # None
    /\ \E a \in argsets :
          LET res == cluster_fates(M(s).adata, Get(ObsmLin(s)), a.mode, a.backward,
                                   a.lineages, a.cluster_key, a.clusters)
          IN  /\ mc' = mc /\ heap' = heap /\ T' = T /\ calls' = calls + 1
              /\ ret' = [on |-> s, op |-> "cluster_fates", args |-> a,
                         exc |-> res.exc, msg |-> res.msg, warn |-> {},
                         aggregated |-> res.aggregated, fig |-> res.fig]

(***************************************************************************)
(* A session whose lineage probabilities are plotted: the labeling is      *)
(* set, the probabilities are computed, and the three consumers are        *)
(* called with every mode, with and without a cluster key, with known and  *)
(* unknown lineages and clusters, on a dataset with or without a PAGA      *)
(* graph.                                                                  *)
(***************************************************************************)
DefaultFates ==
    [mode |-> "paga_pie", backward |-> FALSE, lineages |-> None, cluster_key |-> None,
     clusters |-> None]

FatesLineages == {None, Some(<<"A">>), Some(<<"Z">>), Some(<<"A", "Z">>)}

FatesCalls ==
    {[DefaultFates EXCEPT !.mode = md, !.cluster_key = ck, !.lineages = l] :
        md \in ClusterFatesModes \cup {"pie"}, ck \in {None, Some("clusters")},
        l \in FatesLineages}
    \cup {[DefaultFates EXCEPT !.mode = md, !.cluster_key = Some("clusters"), !.clusters = cs] :
             md \in {"bar", "paga"}, cs \in {Some(<<"c0">>), Some(<<"c9">>)}}
    \cup {[DefaultFates EXCEPT !.mode = "bar", !.cluster_key = Some("louvain")],
          [DefaultFates EXCEPT !.mode = "bar", !.backward = TRUE]}

InitFates ==
    /\ T = BranchChain
    /\ \E paga \in BOOLEAN :
          mc = [s \in Sessions |->
                   IF s = 1 THEN Some([FreshSession EXCEPT !.adata.uns_paga = paga]) ELSE None]
    /\ heap = <<>>
    /\ ret = NoCall
    /\ calls = 0

NextFates ==
    /\ calls < MaxCalls
    /\ \/ SetApproxRcs(1, UserLabelings(n_states(T)))
       \/ ComputeLinProbs(1, {None}, {FALSE})
       \/ PlotLinProbs(1, PlotCalls)
       \/ ComputeLineageDrivers(1, DriversCalls)
       \/ ClusterFates(1, FatesCalls)

SpecFates == InitFates /\ [][NextFates]_vars

\* The lineage names a call was given (None: all of them).
GivenLineages(r) ==
    IF r.op = "compute_lineage_drivers" THEN r.args.lin_names ELSE r.args.lineages

\* The call names a lineage that is no column of the session's matrix.
NamesUnknownLineage(r) ==
    /\ r.op \in {"plot_lin_probs", "compute_lineage_drivers", "cluster_fates"}
    /\ GivenLineages(r) # None
    /\ LinProbs(1) # None
    /\ UnknownNames(Get(LinProbs(1)), Get(GivenLineages(r)))

\* C24: plot_lin_probs, compute_lineage_drivers and cluster_fates raise
\* when a lineage name they are given is not a column name of the
\* lineage-probability matrix, and the call leaves the session, its matrix
\* and its dataset as they were; cluster_fates has then neither aggregated
\* nor drawn.
C24_UnknownLineageRaises ==
    [][NamesUnknownLineage(ret') =>
          /\ ret'.exc # ""
          /\ SessionState(1)' = SessionState(1)
          /\ ret'.op = "cluster_fates" => ~ret'.aggregated /\ ret'.fig = None]_vars

\* cluster_fates, with a cluster key, a known and an unknown lineage and a
\* mode that needs no PAGA graph, has raised for the lineage.
C24_Witness ==
    /\ ret.op = "cluster_fates" /\ NamesUnknownLineage(ret)
    /\ ret.args.cluster_key # None /\ ret.args.mode = "heatmap"
    /\ ret.args.lineages = Some(<<"A", "Z">>)
    /\ ret.exc = "KeyError" /\ ret.msg = "lineage"

\* plot_lin_probs has raised for an unknown lineage.
C24_WitnessPlot ==
    /\ ret.op = "plot_lin_probs" /\ NamesUnknownLineage(ret)
    /\ ret.exc = "ValueError" /\ ret.msg = "lineage"

\* compute_lineage_drivers has raised for an unknown lineage.
C24_WitnessDrivers ==
    /\ ret.op = "compute_lineage_drivers" /\ NamesUnknownLineage(ret)
    /\ ret.exc = "KeyError" /\ ret.msg = "lineage"

(***************************************************************************)
(* Claims about the order in which the derived state comes to exist.       *)
(***************************************************************************)
\* Session s holds nothing that is derived from something it does not hold.
DerivedInOrder(s) ==
    /\ M(s).lin_probs # None => M(s).approx_rcs # None
    /\ M(s).approx_rcs_probs # None => M(s).eig # None

\* C25: in a session created with no derived state, and in its copy, after
\* any calls of compute_partition, compute_eig, set_approx_rcs,
\* compute_approx_rcs, compute_lin_probs and copy, whether they succeeded or
\* raised, lineage_probabilities is set only if approx_recurrent_classes is,
\* and approx_recurrent_classes_probabilities only if the eigendecomposition
\* is.
C25_DerivedStateInOrder == \A s \in Sessions : mc[s] # None => DerivedInOrder(s)

\* A copy that holds lineage probabilities and class probabilities.
C25_Witness ==
    /\ mc[2] # None /\ ret.op = "copy"
    /\ M(2).lin_probs # None /\ M(2).approx_rcs # None
    /\ M(2).approx_rcs_probs # None /\ M(2).eig # None

\* A session in which compute_lin_probs has raised since the labeling was
\* set holds lineage probabilities.
C25_WitnessRaised ==
    /\ ret.op = "compute_lin_probs" /\ ret.exc # ""
    /\ M(1).lin_probs # None /\ M(1).approx_rcs # None

(***************************************************************************)
(* compute_lin_probs with keys: a fixture chain, a labeling with the       *)
(* classes A and B set by set_approx_rcs, then one call of                 *)
(* compute_lin_probs whose keys select one class, select both, or combine  *)
(* them.                                                                   *)
(***************************************************************************)
KeysChoices ==
    {None, Some({{"A"}}), Some({{"B"}}), Some({{"A"}, {"B"}}), Some({{"A", "B"}})}

InitKeys ==
    /\ T \in FixtureChains
    /\ \E rc_labels \in {l \in Labelings(n_states(T)) : l.cats = <<"A", "B">>} :
          mc = [s \in Sessions |->
                   IF s = 1 THEN Some(set_approx_rcs(FreshSession, rc_labels, FALSE).m)
                   ELSE None]
    /\ heap = <<>>
    /\ ret = NoCall
    /\ calls = 0

NextKeys == calls = 0 /\ ComputeLinProbs(1, KeysChoices, {FALSE})

SpecKeys == InitKeys /\ [][NextKeys]_vars

\* The categories of the labeling as keys restricts it.
RestrictedCats(keys) ==
    process_series(Get(M(1).approx_rcs), keys, Get(M(1).approx_rcs_colors)).series.cats

\* C26: compute_lin_probs leaves approx_recurrent_classes, in the session
\* and in the dataset, as it was, whatever keys selects or combines and
\* whether the call succeeds or raises; after a success the columns of the
\* lineage probabilities are the classes of the restricted labeling.
C26_LinProbsKeepsLabeling ==
    [][ret'.op = "compute_lin_probs" =>
          /\ M(1).approx_rcs' = M(1).approx_rcs
          /\ M(1).adata.obs_rc' = M(1).adata.obs_rc
          /\ ret'.exc = "" => Get(LinProbs(1)').names = RestrictedCats(ret'.args.keys)]_vars

\* keys has selected the class A of a labeling in which A and B both have
\* states: the matrix has the one column A, the labeling both classes.
C26_Witness ==
    /\ ret.op = "compute_lin_probs" /\ ret.exc = "" /\ ret.args.keys = Some({{"A"}})
    /\ Get(LinProbs(1)).names = <<"A">>
    /\ Get(M(1).approx_rcs).cats = <<"A", "B">>
    /\ {"A", "B"} \subseteq Range(Get(M(1).approx_rcs).lab)

\* keys has combined the classes A and B into one column.
C26_WitnessCombined ==
    /\ ret.op = "compute_lin_probs" /\ ret.exc = "" /\ ret.args.keys = Some({{"A", "B"}})
    /\ Get(LinProbs(1)).names = <<"A or B">>
    /\ {"A", "B"} \subseteq Range(Get(M(1).approx_rcs).lab)

(***************************************************************************)
(* Following the advice of the error message of line 464: the              *)
(* eigendecomposition is computed with some k, compute_approx_rcs is       *)
(* called with a list of eigenvector indices, and when it answers with     *)
(* the error that names compute_eig(k=m), compute_eig is called with that  *)
(* k and, if it succeeds, the same compute_approx_rcs call is made again.  *)
(* The calls differ in their largest index, so the largest index names     *)
(* the call.                                                               *)
(***************************************************************************)
RecomputeKs == 1 .. 3

\* What the eigensolver can return for k vectors: the constant column
\* first, or the ramp first.
EigsOf(n, k) ==
    {Eig(n, SubSeq(<<Flat(n), Ramp(n), Peak(n)>>, 1, k), SubSeq(<<One, Half, Half>>, 1, k), 0),
     Eig(n, SubSeq(<<Ramp(n), Peak(n), Flat(n)>>, 1, k), SubSeq(<<One, Half, Half>>, 1, k), k - 1)}

RecomputeEigs(n) == UNION {EigsOf(n, k) : k \in RecomputeKs}

RecomputeCalls == {[DefaultApproxRcs EXCEPT !.use = <<"list", <<0, m>>>>] : m \in RecomputeKs}

\* The k the message of the last call names.
NamedK == SeqMax(ret.args.use[2])

InitRecompute ==
    /\ T \in FixtureChains
    /\ mc = [s \in Sessions |-> IF s = 1 THEN Some(FreshSession) ELSE None]
    /\ heap = <<>>
    /\ ret = NoCall
    /\ calls = 0

NextRecompute ==
    \/ calls = 0 /\ ComputeEig(1, RecomputeKs, RecomputeEigs(n_states(T)))
    \/ calls = 1 /\ ComputeApproxRcs(1, RecomputeCalls, {{}})
    \/ /\ calls = 2 /\ ret.msg = "compute_eig(k)"
       /\ ComputeEig(1, {NamedK}, RecomputeEigs(n_states(T)))
    \/ /\ calls = 3 /\ ret.exc = ""
       /\ ComputeApproxRcs(1, {a \in RecomputeCalls : SeqMax(a.use[2]) = ret.args.k}, {{}})

SpecRecompute == InitRecompute /\ [][NextRecompute]_vars

\* The call that was refused has been repeated after compute_eig(k=m).
Repeated == calls = 4 /\ ret.op = "compute_approx_rcs"

\* C27 as stated: when compute_approx_rcs has refused a request because
\* its largest eigenvector index m is not below the number of computed
\* eigenvectors, and compute_eig(k=m), the call the message names, has
\* succeeded, the same compute_approx_rcs call no longer raises that
\* error.
C27_RecomputeAsToldIsAccepted == Repeated => ret.msg # "compute_eig(k)"

\* What the code does: the repeated call is refused with the same error,
\* since m is not below the m eigenvectors now computed.
C27_RecomputeAsToldIsRefused ==
    Repeated =>
        /\ ret.exc = "ValueError" /\ ret.msg = "compute_eig(k)"
        /\ n_vectors(Get(M(1).eig)) = SeqMax(ret.args.use[2])

(***************************************************************************)
(* Claims about what compute_partition stores.                             *)
(***************************************************************************)
\* The session and its dataset hold both class assignments.
ClassesStored ==
    /\ M(1).rec_classes # None /\ M(1).trans_classes # None
    /\ M(1).adata.obs_rec_classes = M(1).rec_classes
    /\ M(1).adata.obs_trans_classes = M(1).trans_classes

\* The session and its dataset hold neither.
ClassesNull ==
    /\ M(1).rec_classes = None /\ M(1).trans_classes = None
    /\ M(1).adata.obs_rec_classes = None /\ M(1).adata.obs_trans_classes = None

\* C28: after compute_partition on a session that had no partition, the
\* flag irreducible is a boolean; if it is False, recurrent_classes and
\* transient_classes are set, each with one entry per state, and no
\* warning is issued; if it is True, both are null, the call has not
\* raised and has issued the warning that the chain is irreducible.
C28_ClassesStoredIffNotIrreducible ==
    ret.op = "compute_partition" =>
        /\ M(1).is_irreducible \in {Some(TRUE), Some(FALSE)}
        /\ ret.exc = ""
        /\ IF Get(M(1).is_irreducible)
           THEN ClassesNull /\ ret.warn = {WarnIrreducible}
           ELSE /\ ClassesStored /\ ret.warn = {}
                /\ DOMAIN Get(M(1).rec_classes) = StatesOf(T)
                /\ DOMAIN Get(M(1).trans_classes) = StatesOf(T)

\* compute_partition on a chain of one closed communicating class has set
\* the flag and warned, and stored no classes.
C28_Witness ==
    /\ ret.op = "compute_partition" /\ ret.warn = {WarnIrreducible}
    /\ Components(T) = {StatesOf(T)}
    /\ M(1).is_irreducible = Some(TRUE) /\ ClassesNull

\* compute_partition on a chain with a transient state has stored both
\* assignments.
C28_WitnessStored ==
    /\ ret.op = "compute_partition" /\ ret.warn = {}
    /\ M(1).is_irreducible = Some(FALSE) /\ ClassesStored
    /\ \E i \in StatesOf(T) : Get(M(1).trans_classes)[i] >= 0

(***************************************************************************)
(* compute_approx_rcs on a session that holds a labeling: the              *)
(* eigendecomposition is computed, a first labeling that gives every       *)
(* state a class is set by set_approx_rcs or computed by                   *)
(* compute_approx_rcs without the percentile filter, and then              *)
(* compute_approx_rcs is called.                                           *)
(***************************************************************************)
FullLabelings(n) ==
    {[cats |-> <<"A", "B">>, lab |-> [i \in 0 .. n - 1 |-> IF i = 0 THEN "A" ELSE "B"]],
     [cats |-> <<"A">>, lab |-> [i \in 0 .. n - 1 |-> "A"]]}

ReplaceCalls ==
    {DefaultApproxRcs,
     [DefaultApproxRcs EXCEPT !.use = <<"list", <<0, 1>>>>, !.percentile = Some(50)],
     [DefaultApproxRcs EXCEPT !.use = <<"list", <<0, 1>>>>, !.percentile = Some(50),
                              !.n_matches_min = 1],
     [DefaultApproxRcs EXCEPT !.use = <<"list", <<1>>>>, !.percentile = None]}

InitReplace ==
    /\ T \in FixtureChains
    /\ mc = [s \in Sessions |-> IF s = 1 THEN Some(FreshSession) ELSE None]
    /\ heap = <<>>
    /\ ret = NoCall
    /\ calls = 0

NextReplace ==
    \/ calls = 0 /\ ComputeEig(1, {2}, Eigs(n_states(T)))
    \/ /\ calls = 1
       /\ \/ SetApproxRcs(1, FullLabelings(n_states(T)))
          \/ ComputeApproxRcs(1, {[DefaultApproxRcs EXCEPT !.percentile = None]}, {{}})
    \/ /\ calls = 2 /\ M(1).approx_rcs # None
       /\ ComputeApproxRcs(1, ReplaceCalls, Strays(n_states(T)))

SpecReplace == InitReplace /\ [][NextReplace]_vars

\* The states the last call clustered.
Clustered ==
    IF ret.args.percentile = None THEN StatesOf(T) ELSE Range(KeptRows)

\* The labeling of the session is what the last call made of the
\* eigenvectors: the labels of the clustering on the states it clustered,
\* less those the neighbor filter removed, and nothing else.
LabelingIsOfLastCall ==
    \E outcome \in ClusterOutcomes \ {"fails"}, stray \in SUBSET StatesOf(T) :
        /\ stray = {} \/ ret.args.n_matches_min > 0
        /\ M(1).approx_rcs =
              Some(filter_cells(FillLabels(n_states(T), Clustered,
                                           cluster_X(Cardinality(Clustered), outcome)),
                                stray))

\* C29: a successful compute_approx_rcs on a session that holds a class
\* labeling replaces it: the labeling afterwards is the one this call
\* computed, so that no state and no category keeps a label of the earlier
\* labeling.  The third call is made on a session that holds a labeling.
C29_LabelingReplaced ==
    (calls = 3 /\ ret.op = "compute_approx_rcs" /\ ret.exc = "") => LabelingIsOfLastCall

\* Every state had a class; compute_approx_rcs has succeeded, and a state
\* it did not cluster has no class any more.
C29_Witness ==
    /\ calls = 3 /\ ret.op = "compute_approx_rcs" /\ ret.exc = ""
    /\ \E i \in StatesOf(T) : i \notin Clustered /\ Get(M(1).approx_rcs).lab[i] = NoLabel
    /\ \E i \in Clustered : Get(M(1).approx_rcs).lab[i] # NoLabel

(***************************************************************************)
(* Claims about the modes of cluster_fates.                                *)
(***************************************************************************)
\* The last call was cluster_fates with a mode of the enumeration.
FatesCalled(modes) == ret.op = "cluster_fates" /\ ret.args.mode \in modes

\* The last call got as far as the aggregation: the dataset has the
\* lineage probabilities of the direction asked for, and every lineage
\* named is one of its columns.
LineagesFound ==
    /\ ~ret.args.backward /\ ObsmLin(1) # None
    /\ ret.args.lineages # None =>
          ~UnknownNames(Get(ObsmLin(1)), Get(ret.args.lineages))

\* C30: cluster_fates without a cluster_key raises ValueError for the
\* modes paga, paga_pie, heatmap and clustermap, with nothing aggregated
\* and no figure; with a cluster_key of the dataset, a call in mode
\* clustermap that draws is drawn by the heatmap strategy with the
\* clustermap flag set (and in mode heatmap with the flag unset), and a
\* call in a paga mode on a dataset without a PAGA graph draws nothing and
\* raises, with KeyError for the missing graph once the lineages are
\* found.
C30_ModesOfClusterFates ==
    /\ (FatesCalled({"paga", "paga_pie", "heatmap", "clustermap"}) /\ ret.args.cluster_key = None) =>
          /\ ret.exc = "ValueError" /\ ret.msg = "no cluster_key"
          /\ ~ret.aggregated /\ ret.fig = None
    /\ (FatesCalled({"heatmap", "clustermap"}) /\ ret.args.cluster_key # None /\ ret.exc = "") =>
          /\ ret.fig # None /\ Get(ret.fig).strategy = "heatmap"
          /\ Get(ret.fig).use_clustermap <=> ret.args.mode = "clustermap"
    /\ (FatesCalled(PagaModes) /\ ret.args.cluster_key # None /\ ~M(1).adata.uns_paga) =>
          /\ ret.exc # "" /\ ret.fig = None
          /\ LineagesFound =>
                ret.exc = "KeyError" /\ ret.msg = "paga" /\ ret.aggregated

\* cluster_fates was called in mode clustermap without a cluster key, on a
\* dataset that holds the lineage probabilities, and raised.
C30_Witness ==
    /\ FatesCalled({"clustermap"}) /\ ret.args.cluster_key = None
    /\ LineagesFound
    /\ ret.exc = "ValueError"

\* A clustermap was drawn.
C30_WitnessClustermap ==
    /\ FatesCalled({"clustermap"}) /\ ret.args.cluster_key = Some("clusters")
    /\ ret.exc = "" /\ Get(ret.fig).use_clustermap

\* A paga mode raised for the missing graph, and drew with the graph.
C30_WitnessPaga ==
    /\ FatesCalled({"paga_pie"}) /\ ret.args.cluster_key = Some("clusters")
    /\ ~M(1).adata.uns_paga /\ ret.msg = "paga"

C30_WitnessPagaDrawn ==
    /\ FatesCalled({"paga"}) /\ M(1).adata.uns_paga /\ ret.exc = ""
    /\ Get(ret.fig).strategy = "paga"

====
